---- MODULE Spec2Model ----
(***************************************************************************)
(* Model of the frontend of gemini-enterprise-api-explorer: the typed API  *)
(* client (frontend/lib/api.ts), the configuration store (lib/config and   *)
(* ConfigSidebar) and the view components that call them.                  *)
(*                                                                         *)
(* Text is modelled as a sequence of one-character strings.  In the SSE    *)
(* stream a JSON payload is abbreviated to a few characters ("{","D","}"   *)
(* stands for {"type":"done"}); the 'data: ' marker and the newline are    *)
(* kept character by character, and one two-byte UTF-8 character is kept   *)
(* byte by byte, because those are what the buffering code inspects.       *)
(***************************************************************************)
EXTENDS Integers, Sequences, FiniteSets, TLC

(***************************************************************************)
(* Bounds                                                                  *)
(***************************************************************************)
MaxLines == 2
MaxChunk == 24
MaxRefresh == 2
MaxLoads == 1
MaxTurns == 2
MaxChunks == 2
MaxEdits == 2
MaxRequests == 2

\* the turns of one mounted chat view when the views are switched
MaxViewTurns == 1

\* the listRecentlyViewedNotebooks calls of NotebookList
MaxListRequests == 3

(***************************************************************************)
(* Generic helpers                                                         *)
(***************************************************************************)
Min(a, b) == IF a < b THEN a ELSE b

Range(s) == {s[i] : i \in 1..Len(s)}

IsPrefixOf(s, t) == Len(s) <= Len(t) /\ SubSeq(t, 1, Len(s)) = s

RECURSIVE Flatten(_)
Flatten(ss) == IF ss = <<>> THEN <<>> ELSE Head(ss) \o Flatten(Tail(ss))

RECURSIVE SeqsUpTo(_, _)
SeqsUpTo(S, n) ==
  IF n = 0 THEN {<<>>}
  ELSE LET shorter == SeqsUpTo(S, n - 1)
       IN  shorter \cup {Append(s, x) : s \in shorter, x \in S}

(***************************************************************************)
(* State                                                                   *)
(***************************************************************************)
VARIABLES
  text,      \* the bytes the response body will deliver, in order
  pos,       \* number of bytes of text already returned by reader.read()
  pending,   \* bytes held back by the TextDecoder (an incomplete character)
  buffer,    \* `buffer`: decoded text after the last newline seen
  lines,     \* lines of the current chunk the for loop has not visited yet
  cur,       \* `parsed`: the payload the generator is suspended on
  yielded,   \* payloads handed to the consumer so far, in order
  gpc,       \* position of the generator
  gend,      \* how the generator finished
  gerr,      \* message of the error the generator threw
  releases   \* number of reader.releaseLock() calls

streamVars ==
  <<text, pos, pending, buffer, lines, cur, yielded, gpc, gend, gerr, releases>>

\* configuration (app/page.tsx Home, components/ConfigSidebar, lib/config)
VARIABLES
  config,      \* Home: the active configuration
  localConfig, \* ConfigSidebar: the configuration being edited
  errors,      \* ConfigSidebar: validation messages
  storage,     \* localStorage item 'agentspace-config' (text) or NoItem
  mounted      \* Home's mount effect has run

cfgVars == <<config, localConfig, errors, storage, mounted>>

\* one call of a function of lib/api.ts or lib/config
VARIABLES
  call,        \* the function called and its arguments
  request,     \* what uploadFileSource passed to fetch
  response,    \* the HTTP response fetch resolved to
  outcome      \* what the call returned or threw

apiVars == <<call, request, response, outcome>>

\* NotebookExplorer and the notebook state of Home
VARIABLES
  nbProject,        \* prop projectNumber
  newNotebookTitle, \* NotebookExplorer state
  creating,
  deleting,
  notebookDetails,
  nbError,          \* `error`
  nbSuccess,        \* `success`
  loadingSources,
  selectedNotebook, \* Home state
  refreshKey,       \* Home state
  nbInflight,       \* requests of the handlers awaiting their response
  nbLoads,          \* loadNotebookSources calls awaiting their response
  nbResp            \* the response whose continuation has just run

nbVars ==
  <<nbProject, newNotebookTitle, creating, deleting, notebookDetails, nbError,
    nbSuccess, loadingSources, selectedNotebook, refreshKey, nbInflight,
    nbLoads, nbResp>>

\* ChatInterface
VARIABLES
  messages,     \* ChatInterface state
  input,
  isLoading,
  sessionId,
  chatInflight, \* the stream-assist requests awaiting their response
  chatResp,     \* the response whose continuation has just run
  agents,
  selectedAgent,
  agentsInflight \* the list-agents requests awaiting their response

agentVars == <<agents, selectedAgent, agentsInflight>>

chatVars == <<messages, input, isLoading, sessionId, chatInflight, chatResp,
              agentVars>>

\* SearchResults
VARIABLES
  query,        \* SearchResults state
  results,
  loading,
  error,
  searchInflight \* the web-grounding-search requests awaiting their response

searchVars == <<query, results, loading, error, searchInflight>>

\* NotebookSourceManager
VARIABLES
  sourceType,   \* NotebookSourceManager state
  adding,
  srcDeleting,  \* its deleting, error and success
  srcError,
  srcSuccess,
  form,         \* the form state: textSourceName ... fileDisplayName
  selectedFile,
  sources,      \* the sources prop
  srcInflight,  \* the requests awaiting their response
  srcEdits      \* number of edits of the form so far

srcVars == <<sourceType, adding, srcDeleting, srcError, srcSuccess, form,
             selectedFile, sources, srcInflight, srcEdits>>

\* ApiExplorer
VARIABLES
  exData,       \* engineDetailsData ... searchData, by operation key
  exLoading,    \* its loading
  agentId,
  exInflight,   \* the requests awaiting their response
  exStarted,    \* number of requests started so far
  exLast        \* the outcome whose continuation has just run

exVars == <<exData, exLoading, agentId, exInflight, exStarted, exLast>>

\* Home
VARIABLES
  currentView   \* Home's currentView: the view that is mounted

homeVars == <<currentView>>

\* NotebookList
VARIABLES
  notebooks,    \* NotebookList state
  listLoading,  \* its loading
  listError,    \* its error ("" for null)
  listInflight, \* the listRecentlyViewedNotebooks calls awaiting their outcome
  listStarted,  \* number of calls started so far
  listOutcomes  \* the outcome of each call that has ended, by its number

listVars == <<notebooks, listLoading, listError, listInflight, listStarted,
              listOutcomes>>

vars == <<streamVars, cfgVars, apiVars, nbVars, chatVars, searchVars, srcVars,
          exVars, homeVars, listVars>>

notStream == <<cfgVars, apiVars, nbVars, chatVars, searchVars, srcVars, exVars,
  homeVars, listVars>>
notCfg == <<streamVars, apiVars, nbVars, chatVars, searchVars, srcVars, exVars,
  homeVars, listVars>>
notApi == <<streamVars, cfgVars, nbVars, chatVars, searchVars, srcVars, exVars,
  homeVars, listVars>>
notNb == <<streamVars, cfgVars, apiVars, chatVars, searchVars, srcVars, exVars,
  homeVars, listVars>>
notChat == <<streamVars, cfgVars, apiVars, nbVars, searchVars, srcVars, exVars,
  homeVars, listVars>>
notSearch == <<streamVars, cfgVars, apiVars, nbVars, chatVars, srcVars, exVars,
  homeVars, listVars>>
notSrc == <<streamVars, cfgVars, apiVars, nbVars, chatVars, searchVars, exVars,
  homeVars, listVars>>
notEx == <<streamVars, cfgVars, apiVars, nbVars, chatVars, searchVars, srcVars,
  homeVars, listVars>>
notList == <<streamVars, cfgVars, apiVars, nbVars, chatVars, searchVars, srcVars,
  exVars, homeVars>>

NoValue == [kind |-> "none"]
JsonNull == [kind |-> "null"]
ParseError == [kind |-> "SyntaxError"]
JsonObject(t) == [kind |-> "object", type |-> t]
JsonString(s) == [kind |-> "string", chars |-> s]

StatusTexts == {"Bad Request", "Internal Server Error"}

(***************************************************************************)
(* The API client functions (frontend/lib/api.ts) and getBaseUrl           *)
(***************************************************************************)
Undefined == [kind |-> "undefined"]
Returned(v) == [kind |-> "returned", value |-> v]
Threw(m) == [kind |-> "threw", message |-> m]
Streaming == [kind |-> "streaming"]

getBaseUrlAlwaysRegional(location) ==
  "https://" \o location \o "-discoveryengine.googleapis.com"

getBaseUrl(location) ==
  IF location = "global" THEN "https://discoveryengine.googleapis.com"
  ELSE "https://" \o location \o "-discoveryengine.googleapis.com"

JsonFns ==
  {"search", "listAgents", "getAgent", "converse", "createNotebook",
   "getNotebook", "listRecentlyViewedNotebooks", "batchCreateNotebookSources",
   "getNotebookSource", "getNotebookUrl", "uploadFileSource"}

VoidFns == {"batchDeleteNotebookSources", "batchDeleteNotebooks", "shareNotebook"}

ClientFns == JsonFns \cup VoidFns \cup {"converseStream"}

\* the text before ${response.statusText} in each throw new Error(...)
ErrorPrefix(fn) ==
  CASE fn = "search"                      -> "Search failed: "
    [] fn = "listAgents"                  -> "Failed to list agents: "
    [] fn = "getAgent"                    -> "Failed to get agent: "
    [] fn = "converse"                    -> "Conversation failed: "
    [] fn = "converseStream"              -> "Streaming conversation failed: "
    [] fn = "createNotebook"              -> "Failed to create notebook: "
    [] fn = "getNotebook"                 -> "Failed to get notebook: "
    [] fn = "listRecentlyViewedNotebooks" -> "Failed to list notebooks: "
    [] fn = "batchCreateNotebookSources"  -> "Failed to create sources: "
    [] fn = "getNotebookSource"           -> "Failed to get source: "
    [] fn = "batchDeleteNotebookSources"  -> "Failed to delete sources: "
    [] fn = "batchDeleteNotebooks"        -> "Failed to delete notebooks: "
    [] fn = "shareNotebook"               -> "Failed to share notebook: "
    [] fn = "getNotebookUrl"              -> "Failed to get notebook URL: "
    [] fn = "uploadFileSource"            -> "Failed to upload file: "

\* response bodies: two JSON documents, a text that is not JSON, no content
JsonBodies == {"{\"notebookId\":\"n1\"}", "{}"}
Bodies == JsonBodies \cup {"<html>Bad Gateway</html>", ""}

\* response.json(): the parsed document, or a rejection with a SyntaxError
ResponseJson(body) ==
  IF body \in JsonBodies THEN [kind |-> "json", of |-> body] ELSE ParseError

Responses ==
  [ok : {TRUE}, statusText : {"OK"}, body : Bodies]
    \cup [ok : {FALSE}, statusText : StatusTexts, body : Bodies]

NoResponse == [ok |-> FALSE, statusText |-> "", body |-> ""]

\* the message of the Error thrown for a response that is not OK; the
\* template literal is kept as the sequence of its parts
StatusError(fn, resp) ==
  IF fn = "uploadFileSource"
    THEN Threw(<<ErrorPrefix(fn), resp.statusText, " - ", resp.body>>)
    ELSE Threw(<<ErrorPrefix(fn), resp.statusText>>)

clientCallIgnoresStatus(fn, resp) ==
  IF fn \in VoidFns THEN Returned(Undefined)
  ELSE IF fn = "converseStream" THEN Streaming
  ELSE IF ResponseJson(resp.body) = ParseError THEN Threw(<<"SyntaxError">>)
  ELSE Returned(ResponseJson(resp.body))

\* what a client function does with the response of its fetch
clientCall(fn, resp) ==
  IF ~resp.ok THEN StatusError(fn, resp)
  ELSE IF fn \in VoidFns THEN Returned(Undefined)
  ELSE IF fn = "converseStream" THEN Streaming
  ELSE IF ResponseJson(resp.body) = ParseError THEN Threw(<<"SyntaxError">>)
  ELSE Returned(ResponseJson(resp.body))

(***************************************************************************)
(* converseStream                                                          *)
(***************************************************************************)
NL == "\n"
Lead == "C3"          \* first byte of the two-byte character
Cont == "A9"          \* its continuation byte
EAcute == "e'"        \* the character the two bytes decode to
Replacement == "FFFD" \* U+FFFD, emitted for a malformed sequence

SSEPrefix == <<"d", "a", "t", "a", ":", " ">>

\* JSON.parse on the abbreviated payload alphabet
TypeOfToken(c) ==
  CASE c = "P" -> "partial"
    [] c = "D" -> "done"
    [] c = "E" -> "error"
    [] OTHER   -> "other"

JSONparse(s) ==
  IF s = <<"N">> THEN JsonNull
  ELSE IF Len(s) = 3 /\ s[1] = "{" /\ s[3] = "}" /\ s[2] \in {"P", "D", "E"}
    THEN JsonObject(TypeOfToken(s[2]))
  ELSE IF Len(s) >= 2 /\ s[1] = "q" /\ s[Len(s)] = "q"
          /\ \A i \in 2..(Len(s) - 1) : s[i] \notin {"q", "{", "}"}
    THEN JsonString(SubSeq(s, 2, Len(s) - 1))
  ELSE ParseError

\* buffer.split('\n')
RECURSIVE SplitFrom(_, _, _)
SplitFrom(s, i, acc) ==
  IF i > Len(s) THEN <<acc>>
  ELSE IF s[i] = NL THEN <<acc>> \o SplitFrom(s, i + 1, <<>>)
  ELSE SplitFrom(s, i + 1, Append(acc, s[i]))

Split(s) == SplitFrom(s, 1, <<>>)

\* decoder.decode(value, { stream: true }): an incomplete trailing character
\* is held back and completed by the next call
RECURSIVE DecodeFrom(_, _, _)
DecodeFrom(held, bytes, out) ==
  IF bytes = <<>> THEN [out |-> out, pending |-> held]
  ELSE LET b == Head(bytes) IN
    IF held # <<>>
      THEN IF b = Cont
             THEN DecodeFrom(<<>>, Tail(bytes), Append(out, EAcute))
             ELSE DecodeFrom(<<>>, bytes, Append(out, Replacement))
    ELSE IF b = Lead THEN DecodeFrom(<<b>>, Tail(bytes), out)
    ELSE IF b = Cont THEN DecodeFrom(<<>>, Tail(bytes), Append(out, Replacement))
    ELSE DecodeFrom(<<>>, Tail(bytes), Append(out, b))

decode(held, bytes, out) == DecodeFrom(held, bytes, out)

startsWith(line, p) == IsPrefixOf(p, line)

slice(line, n) == SubSeq(line, n + 1, Len(line))

IsTerminal(v) == v.kind = "object" /\ v.type \in {"done", "error"}

\* lines 291-293: append the decoded chunk, split, keep the last segment
FeedNoBuffer(buf, held, chunk) ==
  LET d   == decode(held, chunk, <<>>)
      seg == Split(d.out)
  IN  [lines   |-> SubSeq(seg, 1, Len(seg) - 1),
       buffer  |-> seg[Len(seg)],
       pending |-> d.pending]

Feed(buf, held, chunk) ==
  LET d   == decode(held, chunk, <<>>)
      seg == Split(buf \o d.out)
  IN  [lines   |-> SubSeq(seg, 1, Len(seg) - 1),
       buffer  |-> seg[Len(seg)],
       pending |-> d.pending]

RECURSIVE RunLoopStopsOnFailure(_)
RunLoopStopsOnFailure(ls) ==
  IF ls = <<>> THEN [yield |-> FALSE, value |-> NoValue, rest |-> <<>>]
  ELSE LET line == Head(ls) IN
    IF ~startsWith(line, SSEPrefix) THEN RunLoopStopsOnFailure(Tail(ls))
    ELSE IF JSONparse(slice(line, Len(SSEPrefix))) # ParseError
      THEN [yield |-> TRUE,
            value |-> JSONparse(slice(line, Len(SSEPrefix))),
            rest  |-> Tail(ls)]
      ELSE [yield |-> FALSE, value |-> NoValue, rest |-> <<>>]

\* the for loop of lines 295-309 from the first of ls to the first yield: a
\* line without the marker is passed over, a payload that does not parse is
\* caught and logged
RECURSIVE RunLoop(_)
RunLoop(ls) ==
  IF ls = <<>> THEN [yield |-> FALSE, value |-> NoValue, rest |-> <<>>]
  ELSE LET line == Head(ls) IN
    IF startsWith(line, SSEPrefix)
         /\ JSONparse(slice(line, Len(SSEPrefix))) # ParseError
      THEN [yield |-> TRUE,
            value |-> JSONparse(slice(line, Len(SSEPrefix))),
            rest  |-> Tail(ls)]
      ELSE RunLoop(Tail(ls))

\* inputs: the streams the backend may send
PayloadTexts ==
  { <<"{", "P", "}">>, <<"{", "D", "}">>, <<"{", "E", "}">>,
    <<"N">>, <<"q", Lead, Cont, "q">>, <<"{", "P">> }

LineKinds ==
  {SSEPrefix \o p : p \in PayloadTexts} \cup { <<"{", "P", "}">>, <<>> }

Tails == { <<>>, SSEPrefix \o <<"{", "D", "}">> }

Terminated(ls) == Flatten([i \in 1..Len(ls) |-> Append(ls[i], NL)])

Texts == {Terminated(ls) \o t : ls \in SeqsUpTo(LineKinds, MaxLines), t \in Tails}

StreamStart ==
  /\ pos = 0
  /\ pending = <<>>
  /\ buffer = <<>>
  /\ lines = <<>>
  /\ cur = NoValue
  /\ yielded = <<>>
  /\ gpc = "fetch"
  /\ gend = "none"
  /\ gerr = <<>>
  /\ releases = 0


\* the finally block, reached on every exit from the try
Finally(how, err) ==
  /\ releases' = releases + 1
  /\ gpc' = "closed"
  /\ gend' = how
  /\ gerr' = err

\* continue the for loop over ls, then either suspend at a yield or go back
\* to reader.read()
Continue(ls) ==
  LET r == RunLoop(ls) IN
  IF r.yield
    THEN /\ yielded' = Append(yielded, r.value)
         /\ cur' = r.value
         /\ lines' = r.rest
         /\ gpc' = "suspended"
    ELSE /\ cur' = NoValue
         /\ lines' = <<>>
         /\ gpc' = "read"
         /\ UNCHANGED yielded

\* lines 265-280: fetch, the status check and getReader()
Fetch ==
  /\ gpc = "fetch"
  /\ \/ \E st \in StatusTexts :
          /\ gpc' = "closed"
          /\ gend' = "threw"
          /\ gerr' = StatusError("converseStream",
                              [ok |-> FALSE, statusText |-> st, body |-> ""]).message
     \/ /\ gpc' = "closed"
        /\ gend' = "threw"
        /\ gerr' = <<"No response body">>
     \/ /\ gpc' = "read"
        /\ UNCHANGED <<gend, gerr>>
  /\ UNCHANGED <<notStream, text, pos, pending, buffer, lines, cur, yielded, releases>>

\* line 287 with done = false, then lines 291-309 up to the first yield
ReadChunk ==
  /\ gpc = "read"
  /\ \E k \in 0..Min(MaxChunk, Len(text) - pos) :
       LET f == Feed(buffer, pending, SubSeq(text, pos + 1, pos + k)) IN
       /\ pos' = pos + k
       /\ buffer' = f.buffer
       /\ pending' = f.pending
       /\ Continue(f.lines)
  /\ UNCHANGED <<notStream, text, gend, gerr, releases>>

ReadDoneFlushesBuffer ==
  /\ gpc = "read"
  /\ pos = Len(text)
  /\ Finally("ended", <<>>)
  /\ yielded' = IF RunLoop(<<buffer>>).yield
                  THEN Append(yielded, RunLoop(<<buffer>>).value)
                  ELSE yielded
  /\ UNCHANGED <<notStream, text, pos, pending, buffer, lines, cur>>

\* line 287 with done = true: break, then the finally block
ReadDone ==
  /\ gpc = "read"
  /\ pos = Len(text)
  /\ Finally("ended", <<>>)
  /\ UNCHANGED <<notStream, text, pos, pending, buffer, lines, cur, yielded>>

\* line 287 rejecting: the exception leaves through the finally block
ReadThrows ==
  /\ gpc = "read"
  /\ Finally("threw", <<"network error">>)
  /\ UNCHANGED <<notStream, text, pos, pending, buffer, lines, cur, yielded>>

\* the consumer asks for the next value: lines 302-304, then the loop goes on.
\* Reading .type of null throws a TypeError that the catch of line 305 logs.
ResumeNoReturn ==
  /\ gpc = "suspended"
  /\ Continue(lines)
  /\ UNCHANGED <<notStream, text, pos, pending, buffer, gend, gerr, releases>>

Resume ==
  /\ gpc = "suspended"
  /\ IF IsTerminal(cur)
       THEN /\ Finally("returned", <<>>)
            /\ UNCHANGED <<lines, cur, yielded>>
       ELSE /\ Continue(lines)
            /\ UNCHANGED <<gend, gerr, releases>>
  /\ UNCHANGED <<notStream, text, pos, pending, buffer>>

AbandonNoFinally ==
  /\ gpc = "suspended"
  /\ gpc' = "closed"
  /\ gend' = "abandoned"
  /\ UNCHANGED <<notStream, text, pos, pending, buffer, lines, cur, yielded,
                 gerr, releases>>

\* the consumer stops iterating (generator.return()): only the finally runs
Abandon ==
  /\ gpc = "suspended"
  /\ Finally("abandoned", <<>>)
  /\ UNCHANGED <<notStream, text, pos, pending, buffer, lines, cur, yielded>>

(***************************************************************************)
(* Configuration: lib/config, ConfigSidebar, Home                          *)
(***************************************************************************)
DQ == "\""
BS == "\\"
NoItem == [kind |-> "absent"]
Null == [kind |-> "null"]

\* JSON.stringify of a string: quotes and backslashes are escaped
RECURSIVE Escape(_)
Escape(s) ==
  IF s = <<>> THEN <<>>
  ELSE (IF Head(s) \in {DQ, BS} THEN <<BS, Head(s)>> ELSE <<Head(s)>>)
         \o Escape(Tail(s))

JSONquote(s) == <<DQ>> \o Escape(s) \o <<DQ>>

Member(k, v) == JSONquote(<<k>>) \o <<":">> \o JSONquote(v)

\* JSON.stringify(localConfig): the members in property order
JSONstringify(c) ==
  <<"{">> \o Member("projectNumber", c.projectNumber) \o <<",">>
          \o Member("location", c.location) \o <<",">>
          \o Member("engineId", c.engineId) \o <<",">>
          \o Member("assistantId", c.assistantId) \o <<"}">>

\* JSON.parse of a string literal starting at t[i]
RECURSIVE ScanString(_, _, _)
ScanString(t, j, acc) ==
  IF j > Len(t) THEN [ok |-> FALSE, value |-> <<>>, next |-> j]
  ELSE IF t[j] = DQ THEN [ok |-> TRUE, value |-> acc, next |-> j + 1]
  ELSE IF t[j] = BS
    THEN IF j + 1 <= Len(t) /\ t[j + 1] \in {DQ, BS}
           THEN ScanString(t, j + 2, Append(acc, t[j + 1]))
           ELSE [ok |-> FALSE, value |-> <<>>, next |-> j]
  ELSE ScanString(t, j + 1, Append(acc, t[j]))

ParseStringAt(t, i) ==
  IF i <= Len(t) /\ t[i] = DQ THEN ScanString(t, i + 1, <<>>)
  ELSE [ok |-> FALSE, value |-> <<>>, next |-> i]

\* JSON.parse of the members of an object whose values are strings
RECURSIVE ParseMembers(_, _, _)
ParseMembers(t, i, acc) ==
  LET k == ParseStringAt(t, i) IN
  IF ~k.ok \/ Len(k.value) # 1 \/ k.next > Len(t) \/ t[k.next] # ":"
    THEN ParseError
  ELSE LET v == ParseStringAt(t, k.next + 1)
           o == (k.value[1] :> v.value) @@ acc
       IN
    IF ~v.ok \/ v.next > Len(t) THEN ParseError
    ELSE IF t[v.next] = "," THEN ParseMembers(t, v.next + 1, o)
    ELSE IF t[v.next] = "}" /\ v.next = Len(t) THEN o
    ELSE ParseError

JSONparseObject(t) ==
  IF t = <<"n", "u", "l", "l">> THEN Null
  ELSE IF Len(t) < 2 \/ t[1] # "{" THEN ParseError
  ELSE IF t = <<"{", "}">> THEN <<>>
  ELSE ParseMembers(t, 2, <<>>)

trim(s) ==
  LET keep == {i \in 1..Len(s) : s[i] # " "}
  IN  IF keep = {} THEN <<>>
      ELSE SubSeq(s, CHOOSE i \in keep : \A j \in keep : i <= j,
                     CHOOSE i \in keep : \A j \in keep : j <= i)

getDefaultConfig ==
  [projectNumber |-> <<>>, location |-> <<"us">>,
   engineId |-> <<>>, assistantId |-> <<"default_assistant">>]

loadConfigFromStorageRethrows(item) ==
  IF item = NoItem \/ item = <<>> THEN Null
  ELSE JSONparseObject(item)

\* the storage item is read, and parsed when it is a non-empty text; a text
\* that does not parse is logged and null is returned
loadConfigFromStorage(item) ==
  IF item = NoItem \/ item = <<>> THEN Null
  ELSE IF JSONparseObject(item) = ParseError THEN Null
  ELSE JSONparseObject(item)

\* values the user may type or select
ProjectValues == { <<>>, <<" ">>, <<"1">>, <<"1", DQ>> }
EngineValues == { <<>>, <<"e">>, <<BS, "e">> }
AssistantValues == { <<>>, <<"default_assistant">> }
Locations == { <<"us">>, <<"eu">>, <<"global">> }

FieldValues(f) ==
  CASE f = "projectNumber" -> ProjectValues
    [] f = "location"      -> Locations
    [] f = "engineId"      -> EngineValues
    [] f = "assistantId"   -> AssistantValues

ConfigFields == {"projectNumber", "location", "engineId", "assistantId"}

\* what the storage may hold when the page is opened
StoredAtStart ==
  { NoItem, <<>>, <<"{", "oops">>, <<"n", "u", "l", "l">>,
    JSONstringify([projectNumber |-> <<"1">>, location |-> <<"eu">>,
                   engineId |-> <<"e">>, assistantId |-> <<>>]) }

CfgStart ==
  /\ config = getDefaultConfig
  /\ localConfig = getDefaultConfig
  /\ errors = <<>>
  /\ mounted = FALSE

validateConfigNoTrim(c) ==
  (IF c.projectNumber = <<>> THEN <<"Project Number is required">> ELSE <<>>)
    \o (IF c.engineId = <<>> THEN <<"Engine ID is required">> ELSE <<>>)

validateConfig(c) ==
  (IF trim(c.projectNumber) = <<>> THEN <<"Project Number is required">> ELSE <<>>)
    \o (IF trim(c.engineId) = <<>> THEN <<"Engine ID is required">> ELSE <<>>)

\* Home's mount effect; ConfigSidebar's effect copies the new config
Mount ==
  /\ ~mounted
  /\ mounted' = TRUE
  /\ LET saved == loadConfigFromStorage(storage) IN
       /\ config' = IF saved # Null THEN saved ELSE config
       /\ localConfig' = IF saved # Null THEN saved ELSE localConfig
  /\ UNCHANGED <<notCfg, errors, storage>>

\* the onChange handlers of the four inputs
EditConfig ==
  /\ mounted
  /\ \E f \in ConfigFields : \E v \in FieldValues(f) :
       localConfig' = [localConfig EXCEPT ![f] = v]
  /\ UNCHANGED <<notCfg, config, errors, storage, mounted>>

HandleApplyStoresProp ==
  /\ mounted
  /\ errors' = validateConfig(localConfig)
  /\ IF validateConfig(localConfig) = <<>>
       THEN /\ config' = localConfig
            /\ storage' = JSONstringify(config)
       ELSE UNCHANGED <<config, storage>>
  /\ UNCHANGED <<notCfg, localConfig, mounted>>

\* handleApply with validateConfig
HandleApply ==
  /\ mounted
  /\ errors' = validateConfig(localConfig)
  /\ IF validateConfig(localConfig) = <<>>
       THEN /\ config' = localConfig
            /\ storage' = JSONstringify(localConfig)
       ELSE UNCHANGED <<config, storage>>
  /\ UNCHANGED <<notCfg, localConfig, mounted>>

(***************************************************************************)
(* uploadFileSource, getContentTypeFromFileName and the calls              *)
(***************************************************************************)
\* file names are sequences of name parts and "." separators
Dot == "."

RECURSIVE SplitOn(_, _, _, _)
SplitOn(s, sep, i, acc) ==
  IF i > Len(s) THEN <<acc>>
  ELSE IF s[i] = sep THEN <<acc>> \o SplitOn(s, sep, i + 1, <<>>)
  ELSE SplitOn(s, sep, i + 1, Append(acc, s[i]))

\* split('.').pop()
LastSegment(name) ==
  LET seg == SplitOn(name, Dot, 1, <<>>) IN seg[Len(seg)]

toLowerCase(part) ==
  CASE part = "PDF"    -> "pdf"
    [] part = "Report" -> "report"
    [] part = "README" -> "readme"
    [] OTHER           -> part

RECURSIVE Join(_)
Join(parts) == IF parts = <<>> THEN "" ELSE Head(parts) \o Join(Tail(parts))

\* the own properties of the contentTypes object literal
contentTypes ==
  [ext \in {"pdf", "txt", "md", "docx", "pptx", "xlsx", "3g2", "3gp", "aac",
            "aif", "aifc", "aiff", "amr", "au", "avi", "cda", "m4a", "mid",
            "midi", "mp3", "mp4", "mpeg", "ogg", "opus", "ra", "ram", "snd",
            "wav", "weba", "wma", "png", "jpg", "jpeg"} |->
    CASE ext = "pdf"  -> "application/pdf"
      [] ext = "txt"  -> "text/plain"
      [] ext = "md"   -> "text/markdown"
      [] ext = "docx" -> "application/vnd.openxmlformats-officedocument.wordprocessingml.document"
      [] ext = "pptx" -> "application/vnd.openxmlformats-officedocument.presentationml.presentation"
      [] ext = "xlsx" -> "application/vnd.openxmlformats-officedocument.spreadsheetml.sheet"
      [] ext = "3g2"  -> "audio/3gpp2"
      [] ext = "3gp"  -> "audio/3gpp"
      [] ext = "aac"  -> "audio/aac"
      [] ext \in {"aif", "aifc", "aiff"} -> "audio/aiff"
      [] ext = "amr"  -> "audio/amr"
      [] ext \in {"au", "snd"} -> "audio/basic"
      [] ext = "avi"  -> "video/x-msvideo"
      [] ext = "cda"  -> "application/x-cdf"
      [] ext = "m4a"  -> "audio/m4a"
      [] ext \in {"mid", "midi"} -> "audio/midi"
      [] ext \in {"mp3", "mpeg"} -> "audio/mpeg"
      [] ext = "mp4"  -> "video/mp4"
      [] ext \in {"ogg", "opus"} -> "audio/ogg"
      [] ext \in {"ra", "ram"} -> "audio/vnd.rn-realaudio"
      [] ext = "wav"  -> "audio/wav"
      [] ext = "weba" -> "audio/webm"
      [] ext = "wma"  -> "audio/x-ms-wma"
      [] ext = "png"  -> "image/png"
      [] ext = "jpg"  -> "image/jpg"
      [] ext = "jpeg" -> "image/jpeg"]

\* contentTypes is a plain object literal, so contentTypes[key] for a key it
\* does not own is looked up on Object.prototype: the lower-case names that
\* resolve there, and the text each value becomes in a URL or a header
InheritedText(key) ==
  CASE key = "constructor" -> "function Object() { [native code] }"
    [] key = "__proto__"   -> "[object Object]"

InheritedKeys == {"constructor", "__proto__"}

\* contentTypes[ext || ''] || 'application/octet-stream'
getContentTypeFromFileName(fileName) ==
  LET ext == Join(LastSegment([i \in 1..Len(fileName) |-> toLowerCase(fileName[i])]))
  IN  IF ext \in DOMAIN contentTypes THEN contentTypes[ext]
      ELSE IF ext \in InheritedKeys THEN InheritedText(ext)
      ELSE "application/octet-stream"

\* lines 530-541 and 548: the query string and the header of the upload
UploadRequest(file, fileName, projectNumber, location) ==
  LET contentType   == IF file.type # "" THEN file.type
                       ELSE getContentTypeFromFileName(file.name)
      fileExtension == LastSegment(file.name)
  IN  [file_name      |-> IF fileExtension # <<>>
                            THEN fileName \o <<Dot>> \o fileExtension
                            ELSE fileName,
       content_type   |-> contentType,
       project_number |-> projectNumber,
       location       |-> location,
       header         |-> contentType]

FileNames ==
  { <<"report", Dot, "final", Dot, "pdf">>, <<"scan", Dot, "PDF">>,
    <<"notes", Dot, "xyz">>, <<"README">>, <<"pdf">>,
    <<"archive", Dot, "constructor">>, <<"draft", Dot>> }

FileTypes == {"", "application/pdf", "text/csv"}

Files == [name : FileNames, type : FileTypes]

DisplayNames == { <<"doc">>, <<"report", Dot, "final">> }

NoCall == [fn |-> "none"]

ApiStart ==
  /\ call = NoCall
  /\ request = NoValue
  /\ response = NoResponse
  /\ outcome = NoValue

\* any client function other than uploadFileSource, with any response
CallClient ==
  /\ \E fn \in ClientFns \ {"uploadFileSource"} : \E resp \in Responses :
       /\ call' = [fn |-> fn]
       /\ response' = resp
       /\ outcome' = clientCall(fn, resp)
  /\ request' = NoValue
  /\ UNCHANGED notApi

CallUploadFileSource ==
  /\ \E file \in Files : \E fileName \in DisplayNames : \E resp \in Responses :
       /\ call' = [fn |-> "uploadFileSource", file |-> file, fileName |-> fileName]
       /\ request' = UploadRequest(file, fileName, "1", "us")
       /\ response' = resp
       /\ outcome' = clientCall("uploadFileSource", resp)
  /\ UNCHANGED notApi

CallGetBaseUrl ==
  /\ \E location \in {"us", "eu", "global"} :
       /\ call' = [fn |-> "getBaseUrl", location |-> location]
       /\ outcome' = Returned(getBaseUrl(location))
  /\ request' = NoValue
  /\ response' = NoResponse
  /\ UNCHANGED notApi

(***************************************************************************)
(* NotebookExplorer (components/NotebookExplorer.tsx) with Home's          *)
(* handleNotebookCreated / handleNotebookDeleted                           *)
(***************************************************************************)
\* a banner that is null; a message is the sequence of the parts of its text
NoBanner == <<>>

\* the notebook a response body describes
NotebookIdOf(body) == IF body = "{\"notebookId\":\"n1\"}" THEN "n1" ELSE ""

NotebookInfoOf(body) ==
  [name        |-> IF NotebookIdOf(body) = "" THEN "" ELSE "notebooks/n1",
   title       |-> IF NotebookIdOf(body) = "" THEN "" ELSE "created",
   notebook_id |-> NotebookIdOf(body)]

\* the notebooks NotebookList offers
ListedNotebooks ==
  { [name |-> "notebooks/n1", title |-> "first", notebook_id |-> "n1"],
    [name |-> "notebooks/n2", title |-> "second", notebook_id |-> "n2"] }

TitleValues == { <<>>, <<" ">>, <<"T">> }

NbResponses == {r \in Responses : r.body # "" /\ r.statusText # "Bad Request"}

NoNbResp == [fn |-> "none", ok |-> FALSE, statusText |-> "", body |-> ""]

Handled(fn, r) ==
  [fn |-> fn, ok |-> r.ok, statusText |-> r.statusText, body |-> r.body]

NbStart ==
  /\ newNotebookTitle = <<>>
  /\ creating = FALSE
  /\ deleting = FALSE
  /\ notebookDetails = Null
  /\ nbError = NoBanner
  /\ nbSuccess = NoBanner
  /\ loadingSources = FALSE
  /\ selectedNotebook = Null
  /\ refreshKey = 0
  /\ nbInflight = {}
  /\ nbLoads = 0
  /\ nbResp = NoNbResp

\* notebookDetails || selectedNotebook
CurrentNotebook(details, selected) == IF details # Null THEN details ELSE selected

\* the effect of lines 56-61 with loadNotebookSources up to its await: runs
\* when notebookDetails or selectedNotebook has changed
SourcesEffect(details, selected) ==
  IF /\ <<details, selected>> # <<notebookDetails, selectedNotebook>>
     /\ CurrentNotebook(details, selected) # Null
     /\ CurrentNotebook(details, selected).notebook_id # ""
     /\ nbProject # ""
    THEN loadingSources' = TRUE /\ nbLoads' = nbLoads + 1
    ELSE UNCHANGED <<loadingSources, nbLoads>>

\* room left for the requests the handlers may still start
OpsInFlight == Cardinality({r \in nbInflight : r.fn # "getNotebook"})

\* onChange of the title input
EditTitle ==
  /\ \E t \in TitleValues : newNotebookTitle' = t
  /\ nbResp' = NoNbResp
  /\ UNCHANGED <<notNb, nbProject, creating, deleting, notebookDetails, nbError,
                 nbSuccess, loadingSources, selectedNotebook, refreshKey,
                 nbInflight, nbLoads>>

\* NotebookList: onNotebookSelect, then the effects of lines 49-61
SelectNotebook ==
  /\ nbLoads < MaxLoads
  /\ \E n \in ListedNotebooks :
       /\ selectedNotebook' = n
       /\ notebookDetails' = n
       /\ SourcesEffect(n, n)
  /\ nbResp' = NoNbResp
  /\ UNCHANGED <<notNb, nbProject, newNotebookTitle, creating, deleting, nbError,
                 nbSuccess, refreshKey, nbInflight>>

\* loadNotebookSources after its await: lines 67-75
LoadSourcesResponse ==
  /\ nbLoads > 0
  /\ nbLoads' = nbLoads - 1
  /\ loadingSources' = FALSE
  /\ nbResp' = NoNbResp
  /\ UNCHANGED <<notNb, nbProject, newNotebookTitle, creating, deleting,
                 notebookDetails, nbError, nbSuccess, selectedNotebook,
                 refreshKey, nbInflight>>

HandleCreateNotebookNoTrim ==
  /\ ~creating /\ nbProject # ""
  /\ refreshKey + OpsInFlight < MaxRefresh
  /\ IF newNotebookTitle = <<>>
       THEN /\ nbError' = <<"Please enter a notebook title">>
            /\ UNCHANGED <<creating, nbSuccess, nbInflight>>
       ELSE /\ creating' = TRUE
            /\ nbError' = NoBanner
            /\ nbSuccess' = NoBanner
            /\ nbInflight' = nbInflight \cup
                 {[fn |-> "createNotebook", title |-> newNotebookTitle]}
  /\ nbResp' = NoNbResp
  /\ UNCHANGED <<notNb, nbProject, newNotebookTitle, deleting, notebookDetails,
                 loadingSources, selectedNotebook, refreshKey, nbLoads>>

\* handleCreateNotebook up to its first await (lines 85-105); the button is
\* disabled while creating or without a project number
HandleCreateNotebook ==
  /\ ~creating /\ nbProject # ""
  /\ refreshKey + OpsInFlight < MaxRefresh
  /\ IF trim(newNotebookTitle) = <<>>
       THEN /\ nbError' = <<"Please enter a notebook title">>
            /\ UNCHANGED <<creating, nbSuccess, nbInflight>>
       ELSE /\ creating' = TRUE
            /\ nbError' = NoBanner
            /\ nbSuccess' = NoBanner
            /\ nbInflight' = nbInflight \cup
                 {[fn |-> "createNotebook", title |-> newNotebookTitle]}
  /\ nbResp' = NoNbResp
  /\ UNCHANGED <<notNb, nbProject, newNotebookTitle, deleting, notebookDetails,
                 loadingSources, selectedNotebook, refreshKey, nbLoads>>

\* handleCreateNotebook from the response of createNotebook to the next
\* await or the end (lines 107-129)
CreateNotebookResponse ==
  \E req \in nbInflight : \E r \in NbResponses :
    LET out == clientCall("createNotebook", r) IN
    /\ req.fn = "createNotebook"
    /\ nbResp' = Handled("createNotebook", r)
    /\ IF out.kind = "threw"
         THEN /\ nbError' = out.message
              /\ creating' = FALSE
              /\ nbInflight' = nbInflight \ {req}
              /\ UNCHANGED <<nbSuccess, newNotebookTitle>>
         ELSE /\ nbSuccess' = <<"Notebook created successfully! ID: ",
                                NotebookIdOf(r.body)>>
              /\ newNotebookTitle' = <<>>
              /\ IF NotebookIdOf(r.body) # ""
                   THEN /\ nbInflight' = (nbInflight \ {req}) \cup
                             {[fn |-> "getNotebook", id |-> NotebookIdOf(r.body)]}
                        /\ UNCHANGED creating
                   ELSE /\ nbInflight' = nbInflight \ {req}
                        /\ creating' = FALSE
              /\ UNCHANGED nbError
    /\ UNCHANGED <<notNb, nbProject, deleting, notebookDetails, loadingSources,
                   selectedNotebook, refreshKey, nbLoads>>

\* handleCreateNotebook from the response of getNotebook to the end
\* (lines 113-129), with Home.handleNotebookCreated
GetNotebookResponse ==
  \E req \in nbInflight : \E r \in NbResponses :
    LET out == clientCall("getNotebook", r) IN
    /\ req.fn = "getNotebook"
    /\ nbLoads < MaxLoads
    /\ nbResp' = Handled("getNotebook", r)
    /\ nbInflight' = nbInflight \ {req}
    /\ creating' = FALSE
    /\ IF out.kind = "threw"
         THEN /\ nbError' = out.message
              /\ UNCHANGED <<notebookDetails, refreshKey, loadingSources, nbLoads>>
         ELSE /\ notebookDetails' = NotebookInfoOf(r.body)
              /\ refreshKey' = refreshKey + 1
              /\ SourcesEffect(NotebookInfoOf(r.body), selectedNotebook)
              /\ UNCHANGED nbError
    /\ UNCHANGED <<notNb, nbProject, newNotebookTitle, deleting, nbSuccess,
                   selectedNotebook>>

\* handleDeleteNotebook up to its await (lines 192-218); the button is shown
\* for a current notebook and disabled while deleting
HandleDeleteNotebook ==
  /\ ~deleting
  /\ CurrentNotebook(notebookDetails, selectedNotebook) # Null
  /\ refreshKey + OpsInFlight < MaxRefresh
  /\ \E confirmed \in BOOLEAN :
       IF ~confirmed
         THEN UNCHANGED <<nbError, nbSuccess, deleting, nbInflight>>
       ELSE IF nbProject = ""
         THEN /\ nbError' = <<"Project number is required">>
              /\ UNCHANGED <<nbSuccess, deleting, nbInflight>>
       ELSE /\ deleting' = TRUE
            /\ nbError' = NoBanner
            /\ nbSuccess' = NoBanner
            /\ nbInflight' = nbInflight \cup
                 {[fn |-> "batchDeleteNotebooks",
                   names |-> <<CurrentNotebook(notebookDetails, selectedNotebook).name>>]}
  /\ nbResp' = NoNbResp
  /\ UNCHANGED <<notNb, nbProject, newNotebookTitle, creating, notebookDetails,
                 loadingSources, selectedNotebook, refreshKey, nbLoads>>

DeleteNotebookResponseKeepsSelection ==
  \E req \in nbInflight : \E r \in NbResponses :
    LET out == clientCall("batchDeleteNotebooks", r) IN
    /\ req.fn = "batchDeleteNotebooks"
    /\ nbResp' = Handled("batchDeleteNotebooks", r)
    /\ nbInflight' = nbInflight \ {req}
    /\ deleting' = FALSE
    /\ IF out.kind = "threw"
         THEN /\ nbError' = out.message
              /\ UNCHANGED <<nbSuccess, notebookDetails, selectedNotebook, refreshKey>>
         ELSE /\ nbSuccess' = <<"Notebook deleted successfully!">>
              /\ notebookDetails' = Null
              /\ refreshKey' = refreshKey + 1
              /\ UNCHANGED <<nbError, selectedNotebook>>
    /\ UNCHANGED <<notNb, nbProject, newNotebookTitle, creating, loadingSources, nbLoads>>

DeleteNotebookResponseGenericMessage ==
  \E req \in nbInflight : \E r \in NbResponses :
    LET out == clientCall("batchDeleteNotebooks", r) IN
    /\ req.fn = "batchDeleteNotebooks"
    /\ nbResp' = Handled("batchDeleteNotebooks", r)
    /\ nbInflight' = nbInflight \ {req}
    /\ deleting' = FALSE
    /\ IF out.kind = "threw"
         THEN /\ nbError' = <<"Failed to delete notebook">>
              /\ UNCHANGED <<nbSuccess, notebookDetails, selectedNotebook, refreshKey>>
         ELSE /\ nbSuccess' = <<"Notebook deleted successfully!">>
              /\ notebookDetails' = Null
              /\ selectedNotebook' = Null
              /\ refreshKey' = refreshKey + 1
              /\ UNCHANGED nbError
    /\ UNCHANGED <<notNb, nbProject, newNotebookTitle, creating, loadingSources, nbLoads>>

\* handleDeleteNotebook from the response to the end (lines 220-231), with
\* Home.handleNotebookDeleted
DeleteNotebookResponse ==
  \E req \in nbInflight : \E r \in NbResponses :
    LET out == clientCall("batchDeleteNotebooks", r) IN
    /\ req.fn = "batchDeleteNotebooks"
    /\ nbResp' = Handled("batchDeleteNotebooks", r)
    /\ nbInflight' = nbInflight \ {req}
    /\ deleting' = FALSE
    /\ IF out.kind = "threw"
         THEN /\ nbError' = out.message
              /\ UNCHANGED <<nbSuccess, notebookDetails, selectedNotebook, refreshKey>>
         ELSE /\ nbSuccess' = <<"Notebook deleted successfully!">>
              /\ notebookDetails' = Null
              /\ selectedNotebook' = Null
              /\ refreshKey' = refreshKey + 1
              /\ UNCHANGED nbError
    /\ UNCHANGED <<notNb, nbProject, newNotebookTitle, creating, loadingSources, nbLoads>>

(***************************************************************************)
(* ChatInterface (components/ChatInterface.tsx) and SearchResults          *)
(* (components/SearchResults.tsx): the response envelope of the            *)
(* api-explorer endpoints and the extraction of the answer text            *)
(***************************************************************************)
SkippedText == "The assistant skipped this query. Try asking a more specific question."

\* a chunk: answer.state and the groundedContent.content.text of each of
\* answer.replies ("" for a reply without text)
ChunkKinds ==
  { [state |-> "SUCCEEDED", replies |-> <<"A">>],
    [state |-> "SUCCEEDED", replies |-> <<"B", "">>],
    [state |-> "IN_PROGRESS", replies |-> <<>>],
    [state |-> "SKIPPED", replies |-> <<"X">>] }

ChunkLists == SeqsUpTo(ChunkKinds, MaxChunks)

\* the envelopes the endpoints answer with; hasChunks FALSE stands for an
\* envelope without data.chunks, session "" for one without session_info,
\* message "" for one without error.message
Envelopes ==
  [success : {TRUE}, hasChunks : {TRUE}, chunks : ChunkLists,
   session : {"", "s1", "s2"}, message : {""}]
    \cup [success : {TRUE, FALSE}, hasChunks : {FALSE}, chunks : {<<>>},
          session : {""}, message : {"", "PERMISSION_DENIED"}]

NoEnvelope == [kind |-> "none"]
Rejected == [kind |-> "rejected", message |-> "Failed to fetch"]

\* the inner loop of lines 120-124: the texts of the replies are appended
RECURSIVE AppendReplies(_, _)
AppendReplies(answerText, replies) ==
  IF replies = <<>> THEN answerText
  ELSE AppendReplies(IF Head(replies) # "" THEN answerText \o Head(replies)
                     ELSE answerText, Tail(replies))

RECURSIVE ExtractLoopAppendsSkipped(_, _)
ExtractLoopAppendsSkipped(answerText, chunks) ==
  IF chunks = <<>> THEN answerText
  ELSE IF Head(chunks).state = "SKIPPED" THEN answerText \o SkippedText
  ELSE ExtractLoopAppendsSkipped(AppendReplies(answerText, Head(chunks).replies),
                                 Tail(chunks))

\* the loop of lines 112-126: a skipped chunk replaces the text and ends it
RECURSIVE ExtractLoop(_, _)
ExtractLoop(answerText, chunks) ==
  IF chunks = <<>> THEN answerText
  ELSE IF Head(chunks).state = "SKIPPED" THEN SkippedText
  ELSE ExtractLoop(AppendReplies(answerText, Head(chunks).replies), Tail(chunks))

\* ChatInterface lines 110-127
ChatAnswerText(data) ==
  IF ~data.hasChunks THEN "" ELSE ExtractLoop("", data.chunks)

\* SearchResults lines 55-69: every chunk's replies are appended
RECURSIVE SearchLoop(_, _)
SearchLoop(answerText, chunks) ==
  IF chunks = <<>> THEN answerText
  ELSE SearchLoop(AppendReplies(answerText, Head(chunks).replies), Tail(chunks))

getAnswerText(res) ==
  IF res = Null THEN "" ELSE IF ~res.hasChunks THEN "" ELSE SearchLoop("", res.chunks)

\* the configurations the views may be given
ViewConfigs ==
  { getDefaultConfig,
    [projectNumber |-> <<"1">>, location |-> <<"eu">>,
     engineId |-> <<>>, assistantId |-> <<"default_assistant">>],
    [projectNumber |-> <<"1">>, location |-> <<"eu">>,
     engineId |-> <<"e">>, assistantId |-> <<"default_assistant">>] }

isConfiguredProjectOnly == config.projectNumber # <<>>

\* projectNumber && engineId of the configuration prop
isConfigured == config.projectNumber # <<>> /\ config.engineId # <<>>

Inputs == { <<>>, <<" ">>, <<"h", "i">> }

Message(role, content, streaming) ==
  [role |-> role, content |-> content, isStreaming |-> streaming]

\* newMessages[newMessages.length - 1] = m on a copy of prev; on an empty
\* array the assignment adds no element
ReplaceLast(prev, m) ==
  IF prev = <<>> THEN <<>> ELSE [prev EXCEPT ![Len(prev)] = m]

ChatStart ==
  /\ messages = <<>>
  /\ input = <<>>
  /\ isLoading = FALSE
  /\ sessionId = "-"
  /\ chatInflight = {}
  /\ chatResp = NoEnvelope
  /\ agents = <<>>
  /\ selectedAgent = ""

\* onChange of the input, which is disabled while loading
EditInput ==
  /\ ~isLoading
  /\ \E v \in Inputs : input' = v
  /\ chatResp' = NoEnvelope
  /\ UNCHANGED <<notChat, agentVars, messages, isLoading, sessionId, chatInflight>>

\* handleSubmit up to the await of fetch (lines 71-102)
HandleSubmit ==
  /\ trim(input) # <<>> /\ ~isLoading /\ isConfigured
  /\ Len(messages) < 2 * MaxTurns
  /\ input' = <<>>
  /\ isLoading' = TRUE
  /\ messages' = messages \o <<Message("user", Join(trim(input)), FALSE),
                               Message("assistant", "", TRUE)>>
  /\ chatInflight' = chatInflight \cup
       {[engine_id |-> config.engineId, assistant_id |-> config.assistantId,
         query |-> Join(trim(input)), project_number |-> config.projectNumber,
         location |-> config.location, agent_name |-> selectedAgent,
         session_id |-> sessionId]}
  /\ chatResp' = NoEnvelope
  /\ UNCHANGED <<notChat, agentVars, sessionId>>

SubmitResponseResetsSession ==
  \E req \in chatInflight : \E data \in Envelopes \cup {Rejected} :
    /\ chatInflight' = chatInflight \ {req}
    /\ chatResp' = data
    /\ isLoading' = FALSE
    /\ messages' = ReplaceLast(messages, Message("assistant", "", FALSE))
    /\ sessionId' = IF data \in Envelopes /\ data.success /\ data.session # ""
                      THEN data.session ELSE "-"
    /\ UNCHANGED <<notChat, agentVars, input>>

SubmitResponseNoFinally ==
  \E req \in chatInflight : \E data \in Envelopes \cup {Rejected} :
    /\ chatInflight' = chatInflight \ {req}
    /\ chatResp' = data
    /\ isLoading' = (data = Rejected)
    /\ messages' = ReplaceLast(messages, Message("assistant", "", FALSE))
    /\ sessionId' = IF data \in Envelopes /\ data.success /\ data.session # ""
                      THEN data.session ELSE sessionId
    /\ UNCHANGED <<notChat, agentVars, input>>

\* handleSubmit after the awaits (lines 104-168)
SubmitResponse ==
  \E req \in chatInflight : \E data \in Envelopes \cup {Rejected} :
    /\ chatInflight' = chatInflight \ {req}
    /\ chatResp' = data
    /\ isLoading' = FALSE
    /\ IF data = Rejected
         THEN /\ messages' = ReplaceLast(messages,
                   Message("assistant", "Error: " \o data.message, FALSE))
              /\ UNCHANGED sessionId
       ELSE IF data.success
         THEN /\ messages' = ReplaceLast(messages,
                   Message("assistant",
                           IF ChatAnswerText(data) # "" THEN ChatAnswerText(data)
                           ELSE "No response received", FALSE))
              /\ sessionId' = IF data.session # "" THEN data.session ELSE sessionId
       ELSE /\ messages' = ReplaceLast(messages,
                   Message("assistant",
                           "Error: " \o (IF data.message # "" THEN data.message
                                         ELSE "Unknown error"), FALSE))
            /\ UNCHANGED sessionId
    /\ UNCHANGED <<notChat, agentVars, input>>

\* handleClearChat; the button is rendered when there are messages
HandleClearChat ==
  /\ messages # <<>>
  /\ messages' = <<>>
  /\ sessionId' = "-"
  /\ chatResp' = NoEnvelope
  /\ UNCHANGED <<notChat, agentVars, input, isLoading, chatInflight>>

\* the request of fetchAgents (lines 47-53)
AgentsRequest(c) ==
  [engine_id |-> c.engineId, project_number |-> c.projectNumber,
   location |-> c.location]

\* the effect of lines 42-69 for configuration c: fetchAgents up to its await
AgentsEffect(c) ==
  IF c.projectNumber # <<>> /\ c.engineId # <<>>
    THEN agentsInflight' = agentsInflight \cup {AgentsRequest(c)}
    ELSE UNCHANGED agentsInflight

AgentLists == { <<>>, <<"a1">> }

\* fetchAgents after its awaits (lines 54-66): the list is replaced when the
\* envelope is successful and has agents
AgentsResponse ==
  /\ \E req \in agentsInflight :
       /\ agentsInflight' = agentsInflight \ {req}
       /\ \/ \E l \in AgentLists : agents' = l
          \/ UNCHANGED agents
  /\ chatResp' = NoEnvelope
  /\ UNCHANGED <<notChat, messages, input, isLoading, sessionId, chatInflight,
                 selectedAgent>>

\* onChange of the agent select: the default or one of the listed agents
SelectAgent ==
  /\ \E a \in {""} \cup Range(agents) : a # selectedAgent /\ selectedAgent' = a
  /\ chatResp' = NoEnvelope
  /\ UNCHANGED <<notChat, messages, input, isLoading, sessionId, chatInflight,
                 agents, agentsInflight>>

Queries == { <<>>, <<" ">>, <<"w", "h", "y">> }

SearchStart ==
  /\ query = <<>>
  /\ results = Null
  /\ loading = FALSE
  /\ error = ""
  /\ searchInflight = {}

\* onChange of the query input, which is disabled while loading
EditQuery ==
  /\ ~loading
  /\ \E v \in Queries : query' = v
  /\ UNCHANGED <<notSearch, results, loading, error, searchInflight>>

\* handleSearch up to the await of fetch (lines 19-38); the button is
\* disabled while loading
HandleSearch ==
  /\ ~loading
  /\ trim(query) # <<>> /\ isConfigured
  /\ loading' = TRUE
  /\ error' = ""
  /\ results' = Null
  /\ searchInflight' = searchInflight \cup
       {[engine_id |-> config.engineId, assistant_id |-> config.assistantId,
         query |-> Join(query), project_number |-> config.projectNumber]}
  /\ UNCHANGED <<notSearch, query>>

\* handleSearch after the awaits (lines 40-51)
SearchResponse ==
  \E req \in searchInflight : \E data \in Envelopes \cup {Rejected} :
    /\ searchInflight' = searchInflight \ {req}
    /\ loading' = FALSE
    /\ IF data = Rejected
         THEN error' = data.message /\ UNCHANGED results
       ELSE IF data.success
         THEN results' = data /\ UNCHANGED error
       ELSE /\ error' = IF data.message # "" THEN data.message ELSE "Search failed"
            /\ UNCHANGED results
    /\ UNCHANGED <<notSearch, query>>

(***************************************************************************)
(* NotebookSourceManager (components/NotebookSourceManager.tsx)            *)
(***************************************************************************)
SourceTypes == {"text", "web", "video", "google_drive", "file"}

MimeTypes ==
  {"application/vnd.google-apps.document",
   "application/vnd.google-apps.presentation"}

TextFields ==
  {"textSourceName", "textContent", "webUrl", "webSourceName", "videoUrl",
   "driveDocId", "driveSourceName", "fileDisplayName"}

\* the inputs rendered for a source type
FieldsOf(t) ==
  CASE t = "text"         -> {"textSourceName", "textContent"}
    [] t = "web"          -> {"webUrl", "webSourceName"}
    [] t = "video"        -> {"videoUrl"}
    [] t = "google_drive" -> {"driveDocId", "driveSourceName"}
    [] t = "file"         -> {"fileDisplayName"}

TypedValues == { <<>>, <<" ">>, <<"x">> }

EmptyForm ==
  [textSourceName |-> <<>>, textContent |-> <<>>, webUrl |-> <<>>,
   webSourceName |-> <<>>, videoUrl |-> <<>>, driveDocId |-> <<>>,
   driveMimeType |-> "application/vnd.google-apps.document",
   driveSourceName |-> <<>>, fileDisplayName |-> <<>>]

\* the files the user may pick: names with one extension, with several dots,
\* without a dot and with a trailing dot
PickableFiles ==
  {f \in Files : /\ f.type = "application/pdf"
                 /\ f.name \in { <<"scan", Dot, "PDF">>,
                                  <<"report", Dot, "final", Dot, "pdf">>,
                                  <<"pdf">>, <<"draft", Dot>> }}

NoUpload == [kind |-> "none"]
TheNotebookId == "n1"

SrcRequest(fn, userContents, names, upload) ==
  [fn |-> fn, notebook_id |-> TheNotebookId,
   project_number |-> config.projectNumber, location |-> config.location,
   user_contents |-> userContents, names |-> names, upload |-> upload]

SrcStart ==
  /\ sourceType = "text"
  /\ adding = FALSE
  /\ srcDeleting = FALSE
  /\ srcError = NoBanner
  /\ srcSuccess = NoBanner
  /\ form = EmptyForm
  /\ selectedFile = Null
  /\ srcInflight = {}
  /\ srcEdits = 0

\* file.name.replace(/\.[^/.]+$/, ''): the last dot and what follows it are
\* removed when something follows it
nameWithoutExt(name) ==
  LET last == LastSegment(name) IN
  IF Len(last) = Len(name) \/ last = <<>> THEN name
  ELSE SubSeq(name, 1, Len(name) - Len(last) - 1)

\* onChange of the source type select
SetSourceType ==
  /\ \E t \in SourceTypes \ {sourceType} : sourceType' = t
  /\ UNCHANGED <<notSrc, adding, srcDeleting, srcError, srcSuccess, form,
                 selectedFile, sources, srcInflight, srcEdits>>

\* onChange of one of the inputs rendered for the selected type
EditField ==
  /\ srcEdits < MaxEdits
  /\ srcEdits' = srcEdits + 1
  /\ \/ \E f \in FieldsOf(sourceType) : \E v \in TypedValues \ {form[f]} :
          form' = [form EXCEPT ![f] = v]
     \/ /\ sourceType = "google_drive"
        /\ \E m \in MimeTypes \ {form.driveMimeType} :
             form' = [form EXCEPT !.driveMimeType = m]
  /\ UNCHANGED <<notSrc, sourceType, adding, srcDeleting, srcError, srcSuccess,
                 selectedFile, sources, srcInflight>>

\* handleFileChange with a file picked
HandleFileChange ==
  /\ sourceType = "file"
  /\ srcEdits < MaxEdits
  /\ srcEdits' = srcEdits + 1
  /\ \E file \in PickableFiles \ {selectedFile} :
       /\ selectedFile' = file
       /\ form' = [form EXCEPT !.fileDisplayName = nameWithoutExt(file.name)]
  /\ UNCHANGED <<notSrc, sourceType, adding, srcDeleting, srcError, srcSuccess,
                 sources, srcInflight>>

\* the message of the validation that fails for the form, <<>> when none does
ValidationError ==
  IF config.projectNumber = <<>> THEN <<"Project number is required">>
  ELSE CASE sourceType = "file" ->
              IF selectedFile = Null THEN <<"Please select a file to upload">>
              ELSE IF trim(form.fileDisplayName) = <<>>
                THEN <<"Please provide a display name for the file">>
              ELSE <<>>
         [] sourceType = "text" ->
              IF trim(form.textSourceName) = <<>> \/ trim(form.textContent) = <<>>
                THEN <<"Source name and content are required for text sources">>
              ELSE <<>>
         [] sourceType = "web" ->
              IF trim(form.webUrl) = <<>> \/ trim(form.webSourceName) = <<>>
                THEN <<"URL and source name are required for web sources">>
              ELSE <<>>
         [] sourceType = "video" ->
              IF trim(form.videoUrl) = <<>>
                THEN <<"YouTube URL is required for video sources">>
              ELSE <<>>
         [] sourceType = "google_drive" ->
              IF trim(form.driveDocId) = <<>> \/ trim(form.driveSourceName) = <<>>
                THEN <<"Document ID and source name are required for Google Drive sources">>
              ELSE <<>>

UserContentFallsThrough ==
  CASE sourceType = "text" ->
         [text_content |-> [source_name |-> form.textSourceName,
                            content |-> form.textContent],
          web_content |-> [url |-> form.webUrl,
                           source_name |-> form.webSourceName]]
    [] sourceType = "web" ->
         [web_content |-> [url |-> form.webUrl,
                           source_name |-> form.webSourceName]]
    [] sourceType = "video" ->
         [video_content |-> [url |-> form.videoUrl]]
    [] sourceType = "google_drive" ->
         [google_drive_content |-> [document_id |-> form.driveDocId,
                                    mime_type |-> form.driveMimeType,
                                    source_name |-> form.driveSourceName]]

\* the switch of lines 112-154: userContent for the selected type
UserContent ==
  CASE sourceType = "text" ->
         [text_content |-> [source_name |-> form.textSourceName,
                            content |-> form.textContent]]
    [] sourceType = "web" ->
         [web_content |-> [url |-> form.webUrl,
                           source_name |-> form.webSourceName]]
    [] sourceType = "video" ->
         [video_content |-> [url |-> form.videoUrl]]
    [] sourceType = "google_drive" ->
         [google_drive_content |-> [document_id |-> form.driveDocId,
                                    mime_type |-> form.driveMimeType,
                                    source_name |-> form.driveSourceName]]

HandleAddSourceNoValidation ==
  /\ ~adding /\ config.projectNumber # <<>>
  /\ srcSuccess' = NoBanner
  /\ srcError' = NoBanner
  /\ adding' = TRUE
  /\ srcInflight' = srcInflight \cup
       {IF sourceType = "file"
          THEN SrcRequest("uploadFileSource", <<>>, <<>>,
                 IF selectedFile = Null THEN NoUpload
                 ELSE UploadRequest(selectedFile, form.fileDisplayName,
                                    config.projectNumber, config.location))
          ELSE SrcRequest("batchCreateNotebookSources", <<UserContent>>,
                          <<>>, NoUpload)}
  /\ UNCHANGED <<notSrc, sourceType, srcDeleting, form, selectedFile, sources,
                 srcEdits>>

\* handleAddSource up to its await (lines 57-90 and 112-159); the button is
\* disabled while adding and without a project number
HandleAddSource ==
  /\ ~adding /\ config.projectNumber # <<>>
  /\ srcSuccess' = NoBanner
  /\ IF ValidationError # <<>>
       THEN /\ srcError' = ValidationError
            /\ UNCHANGED <<adding, srcInflight>>
       ELSE /\ srcError' = NoBanner
            /\ adding' = TRUE
            /\ srcInflight' = srcInflight \cup
                 {IF sourceType = "file"
                    THEN SrcRequest("uploadFileSource", <<>>, <<>>,
                           UploadRequest(selectedFile, form.fileDisplayName,
                                         config.projectNumber, config.location))
                    ELSE SrcRequest("batchCreateNotebookSources",
                                    <<UserContent>>, <<>>, NoUpload)}
  /\ UNCHANGED <<notSrc, sourceType, srcDeleting, form, selectedFile, sources,
                 srcEdits>>

\* handleAddSource after its await (lines 92-109 and 161-186)
AddSourceResponse ==
  \E req \in srcInflight : \E r \in NbResponses :
    LET out == clientCall(req.fn, r) IN
    /\ req.fn \in {"uploadFileSource", "batchCreateNotebookSources"}
    /\ srcInflight' = srcInflight \ {req}
    /\ adding' = FALSE
    /\ IF out.kind = "threw"
         THEN /\ srcError' = out.message
              /\ UNCHANGED <<srcSuccess, form, selectedFile>>
       ELSE IF req.fn = "uploadFileSource"
         THEN /\ srcSuccess' = <<"File uploaded successfully!">>
              /\ selectedFile' = Null
              /\ form' = [form EXCEPT !.fileDisplayName = <<>>]
              /\ UNCHANGED srcError
       ELSE /\ srcSuccess' = <<"Source added successfully!">>
            /\ form' = [EmptyForm EXCEPT
                          !.driveMimeType = form.driveMimeType,
                          !.fileDisplayName = form.fileDisplayName]
            /\ UNCHANGED <<srcError, selectedFile>>
    /\ UNCHANGED <<notSrc, sourceType, srcDeleting, sources, srcEdits>>

\* handleDeleteSource up to its await (lines 189-204); the button of a listed
\* source is disabled while deleting; a declined confirmation changes nothing
HandleDeleteSource ==
  /\ ~srcDeleting
  /\ \E i \in 1..Len(sources) :
       /\ srcDeleting' = TRUE
       /\ srcError' = NoBanner
       /\ srcSuccess' = NoBanner
       /\ srcInflight' = srcInflight \cup
            {SrcRequest("batchDeleteNotebookSources", <<>>, <<sources[i]>>,
                        NoUpload)}
  /\ UNCHANGED <<notSrc, sourceType, adding, form, selectedFile, sources, srcEdits>>

\* handleDeleteSource after its await (lines 206-215)
DeleteSourceResponse ==
  \E req \in srcInflight : \E r \in NbResponses :
    LET out == clientCall(req.fn, r) IN
    /\ req.fn = "batchDeleteNotebookSources"
    /\ srcInflight' = srcInflight \ {req}
    /\ srcDeleting' = FALSE
    /\ IF out.kind = "threw"
         THEN srcError' = out.message /\ UNCHANGED srcSuccess
         ELSE srcSuccess' = <<"Source deleted successfully!">> /\ UNCHANGED srcError
    /\ UNCHANGED <<notSrc, sourceType, adding, form, selectedFile, sources, srcEdits>>

(***************************************************************************)
(* ApiExplorer (components/NotebookSourceManager.tsx, lines 480-1109)      *)
(***************************************************************************)
\* the keys setLoading is given by the seven operations
Ops ==
  {"enginedetails", "enginedatastores", "listassistants", "listagents",
   "getagent", "streamassist", "search"}

NoLoading == "null"

\* a result state: null, or an ApiResponse with or without response / error
ExResult(isSet, hasResponse, success, message) ==
  [isSet |-> isSet, hasResponse |-> hasResponse, success |-> success,
   message |-> message]

NoResult == ExResult(FALSE, FALSE, FALSE, "")

\* what an awaited request ends with: the envelope of the backend, or an
\* exception of fetch or of response.json()
ExOutcomes ==
  { [threw |-> FALSE, result |-> ExResult(TRUE, TRUE, TRUE, "")],
    [threw |-> FALSE, result |-> ExResult(TRUE, FALSE, FALSE, "PERMISSION_DENIED")],
    [threw |-> TRUE, result |-> ExResult(TRUE, FALSE, FALSE, "Failed to fetch")],
    [threw |-> TRUE, result |-> ExResult(TRUE, FALSE, FALSE, "Unexpected token <")] }

NoOutcome == [threw |-> FALSE, result |-> NoResult]
NoLast == [op |-> "none", outcome |-> NoOutcome]

AgentIds == {"", "a1"}

\* the parameters of the request of an operation (lines 513-516, 615-623,
\* 641-647) with the engine id of its path
ExRequest(op) ==
  IF op = "streamassist"
    THEN [id |-> exStarted + 1, op |-> op, engine_id |-> config.engineId,
          assistant_id |-> config.assistantId,
          query |-> "Hello, how can you help me?",
          project_number |-> config.projectNumber,
          location |-> config.location, agent_name |-> agentId,
          session_id |-> "-"]
  ELSE IF op = "search"
    THEN [id |-> exStarted + 1, op |-> op, engine_id |-> config.engineId,
          assistant_id |-> config.assistantId,
          query |-> "What are the latest developments in quantum computing?",
          project_number |-> config.projectNumber,
          location |-> config.location]
  ELSE IF op = "getagent"
    THEN [id |-> exStarted + 1, op |-> op, engine_id |-> config.engineId,
          agent_id |-> agentId, project_number |-> config.projectNumber,
          location |-> config.location]
  ELSE [id |-> exStarted + 1, op |-> op, engine_id |-> config.engineId,
        project_number |-> config.projectNumber, location |-> config.location]

ExStart ==
  /\ exData = [op \in Ops |-> NoResult]
  /\ exLoading = NoLoading
  /\ agentId = ""
  /\ exInflight = {}
  /\ exStarted = 0
  /\ exLast = NoLast

\* onChange of the agent id inputs
EditAgentId ==
  /\ \E a \in AgentIds \ {agentId} : agentId' = a
  /\ exLast' = NoLast
  /\ UNCHANGED <<notEx, exData, exLoading, exInflight, exStarted>>

\* fetchEngineDetails ... testWebGroundingSearch up to the await of fetch; the
\* button of an operation is disabled while loading holds its key
StartOperation ==
  /\ exStarted < MaxRequests
  /\ isConfigured
  /\ \E op \in Ops :
       /\ exLoading # op
       /\ exLoading' = op
       /\ exInflight' = exInflight \cup {ExRequest(op)}
  /\ exStarted' = exStarted + 1
  /\ exLast' = NoLast
  /\ UNCHANGED <<notEx, exData, agentId>>

OperationCompletesClearsResults ==
  \E req \in exInflight : \E out \in ExOutcomes :
    /\ exInflight' = exInflight \ {req}
    /\ exData' = IF out.threw
                   THEN [op \in Ops |-> IF op = req.op THEN out.result ELSE NoResult]
                   ELSE [exData EXCEPT ![req.op] = out.result]
    /\ exLoading' = NoLoading
    /\ exLast' = [op |-> req.op, outcome |-> out]
    /\ UNCHANGED <<notEx, agentId, exStarted>>

\* the same functions after their awaits: the result of the operation is set
\* from the response or from the exception, then finally setLoading(null)
OperationCompletes ==
  \E req \in exInflight : \E out \in ExOutcomes :
    /\ exInflight' = exInflight \ {req}
    /\ exData' = [exData EXCEPT ![req.op] = out.result]
    /\ exLoading' = NoLoading
    /\ exLast' = [op |-> req.op, outcome |-> out]
    /\ UNCHANGED <<notEx, agentId, exStarted>>

(***************************************************************************)
(* NotebookList (components/NotebookList.tsx) as Home renders it           *)
(***************************************************************************)
\* what listRecentlyViewedNotebooks ends with: a response with notebooks,
\* one without the notebooks field, or an exception
ListOutcomes ==
  { Returned(<<"n1">>), Returned(<<"n1", "n2">>), Returned(<<>>),
    Threw("Failed to fetch") }

NoListOutcome == [kind |-> "none"]

\* the configurations Home may give NotebookList its props from
ListConfigs ==
  { [getDefaultConfig EXCEPT !.projectNumber = p] : p \in {<<>>, <<" ">>, <<"1">>, <<"2">>} }
    \cup { [getDefaultConfig EXCEPT !.projectNumber = <<"1">>, !.location = <<"eu">>] }

ListRequest(c) ==
  [id |-> listStarted + 1, project_number |-> c.projectNumber,
   location |-> c.location]

\* the state a new NotebookList is created with (lines 209-211)
ListStart ==
  /\ notebooks = <<>>
  /\ listLoading = TRUE
  /\ listError = ""
  /\ listInflight = {}
  /\ listStarted = 0
  /\ listOutcomes = [i \in 1..MaxListRequests |-> NoListOutcome]

\* the effect of lines 213-241 with fetchNotebooks up to its await, for the
\* props of configuration c, in a list with notebooks nbs whose calls in
\* inflight can still reach it
fetchNotebooks(c, nbs, inflight) ==
  IF c.projectNumber = <<>> \/ trim(c.projectNumber) = <<>>
    THEN /\ listLoading' = FALSE
         /\ listError' = ""
         /\ notebooks' = <<>>
         /\ listInflight' = inflight
         /\ UNCHANGED listStarted
    ELSE /\ listStarted < MaxListRequests
         /\ listLoading' = TRUE
         /\ listError' = ""
         /\ notebooks' = nbs
         /\ listInflight' = inflight \cup {ListRequest(c)}
         /\ listStarted' = listStarted + 1

\* Home: setConfig with other projectNumber / location props while the
\* notebooks view is shown; the effect runs again
ListPropsChange ==
  /\ \E c \in ListConfigs \ {config} :
       /\ config' = c
       /\ localConfig' = c
       /\ fetchNotebooks(c, notebooks, listInflight)
  /\ UNCHANGED <<errors, storage, mounted, listOutcomes, streamVars, apiVars,
                 nbVars, chatVars, searchVars, srcVars, exVars, homeVars>>

\* fetchNotebooks after its await (lines 227-236)
ListResponse ==
  \E req \in listInflight : \E out \in ListOutcomes :
    /\ listInflight' = listInflight \ {req}
    /\ listOutcomes' = [listOutcomes EXCEPT ![req.id] = out]
    /\ IF out.kind = "returned"
         THEN notebooks' = out.value /\ UNCHANGED listError
         ELSE listError' = out.message /\ UNCHANGED notebooks
    /\ listLoading' = FALSE
    /\ UNCHANGED <<notList, listStarted>>

\* Home: key={refreshKey} has changed (handleNotebookCreated /
\* handleNotebookDeleted): the list is created again and its effect runs; the
\* continuations of the replaced list no longer reach a mounted component
ListRemount ==
  /\ refreshKey < MaxRefresh
  /\ refreshKey' = refreshKey + 1
  /\ fetchNotebooks(config, <<>>, {})
  /\ UNCHANGED <<listOutcomes, streamVars, cfgVars, apiVars, chatVars,
                 searchVars, srcVars, exVars, homeVars, nbProject,
                 newNotebookTitle, creating, deleting, notebookDetails, nbError,
                 nbSuccess, loadingSources, selectedNotebook, nbInflight,
                 nbLoads, nbResp>>

(***************************************************************************)
(* Specifications: one per component; the other components stay idle       *)
(***************************************************************************)
StreamIdle == StreamStart /\ text = <<>>
CfgIdle == CfgStart /\ storage = NoItem
ApiIdle == ApiStart
NbIdle == NbStart /\ nbProject = ""
ChatIdle == ChatStart /\ agentsInflight = {}
SearchIdle == SearchStart
SrcIdle == SrcStart /\ sources = <<>>
ExIdle == ExStart
ListIdle == ListStart
Views == {"api-explorer", "notebooks", "chat", "search"}

InitStream == StreamStart /\ text \in Texts /\ CfgIdle /\ ApiIdle /\ NbIdle /\ ChatIdle /\ SearchIdle /\ SrcIdle /\ ExIdle
  /\ ListIdle /\ currentView = "api-explorer"

NextStream == Fetch \/ ReadChunk \/ ReadDone \/ ReadThrows \/ Resume \/ Abandon

SpecStream == InitStream /\ [][NextStream]_vars

InitCfg == CfgStart /\ storage \in StoredAtStart /\ StreamIdle /\ ApiIdle /\ NbIdle /\ ChatIdle /\ SearchIdle /\ SrcIdle /\ ExIdle
  /\ ListIdle /\ currentView = "api-explorer"

NextCfg == Mount \/ EditConfig \/ HandleApply

SpecCfg == InitCfg /\ [][NextCfg]_vars

InitApi == ApiStart /\ StreamIdle /\ CfgIdle /\ NbIdle /\ ChatIdle /\ SearchIdle /\ SrcIdle /\ ExIdle
  /\ ListIdle /\ currentView = "api-explorer"

NextApi == CallClient \/ CallUploadFileSource \/ CallGetBaseUrl

SpecApi == InitApi /\ [][NextApi]_vars

InitNb ==
  /\ NbStart /\ nbProject \in {"", "1"}
  /\ StreamIdle /\ CfgIdle /\ ApiIdle /\ ChatIdle /\ SearchIdle /\ SrcIdle /\ ExIdle
  /\ ListIdle /\ currentView = "notebooks"

NextNb ==
  \/ EditTitle \/ SelectNotebook \/ LoadSourcesResponse
  \/ HandleCreateNotebook \/ CreateNotebookResponse \/ GetNotebookResponse
  \/ HandleDeleteNotebook \/ DeleteNotebookResponse

SpecNb == InitNb /\ [][NextNb]_vars

\* the views are given a configuration that stays the same
ViewCfg ==
  /\ config \in ViewConfigs /\ localConfig = config
  /\ errors = <<>> /\ mounted = TRUE /\ storage = NoItem

InitChat ==
  /\ ViewCfg /\ StreamIdle /\ ApiIdle /\ NbIdle /\ SearchIdle /\ SrcIdle /\ ExIdle
  /\ ChatStart
  /\ agentsInflight = IF isConfigured THEN {AgentsRequest(config)} ELSE {}
  /\ ListIdle /\ currentView = "chat"

NextChat ==
  \/ EditInput \/ HandleSubmit \/ SubmitResponse \/ HandleClearChat
  \/ AgentsResponse \/ SelectAgent

SpecChat == InitChat /\ [][NextChat]_vars

InitSrc ==
  /\ SrcStart /\ sources \in {<<>>, <<"sources/s1">>}
  /\ ViewCfg /\ StreamIdle /\ ApiIdle /\ NbIdle /\ ChatIdle /\ SearchIdle /\ ExIdle
  /\ ListIdle /\ currentView = "notebooks"

NextSrc ==
  \/ SetSourceType \/ EditField \/ HandleFileChange \/ HandleAddSource
  \/ AddSourceResponse \/ HandleDeleteSource \/ DeleteSourceResponse

SpecSrc == InitSrc /\ [][NextSrc]_vars

InitEx ==
  /\ ExStart /\ ViewCfg /\ StreamIdle /\ ApiIdle /\ NbIdle /\ ChatIdle
  /\ SearchIdle /\ SrcIdle
  /\ ListIdle /\ currentView = "api-explorer"

NextEx == EditAgentId \/ StartOperation \/ OperationCompletes

SpecEx == InitEx /\ [][NextEx]_vars

InitSearch == SearchStart /\ ViewCfg /\ StreamIdle /\ ApiIdle /\ NbIdle /\ ChatIdle /\ SrcIdle /\ ExIdle
  /\ ListIdle /\ currentView = "search"

NextSearch == EditQuery \/ HandleSearch \/ SearchResponse

SpecSearch == InitSearch /\ [][NextSearch]_vars

\* the views Home mounts with the configuration as a prop
ConfiguredViews == {"api-explorer", "chat", "search"}

\* Home: a tab button sets currentView; the view that was shown is unmounted
\* and the new one is mounted with its initial state; ChatInterface's effect
\* runs at its mount
SwitchView ==
  /\ \E v \in ConfiguredViews \ {currentView} :
       /\ currentView' = v
       /\ agentsInflight' = IF v = "chat" /\ isConfigured
                              THEN {AgentsRequest(config)} ELSE {}
  /\ messages' = <<>> /\ input' = <<>> /\ isLoading' = FALSE
  /\ sessionId' = "-" /\ chatInflight' = {} /\ chatResp' = NoEnvelope
  /\ agents' = <<>> /\ selectedAgent' = ""
  /\ query' = <<>> /\ results' = Null /\ loading' = FALSE /\ error' = ""
  /\ searchInflight' = {}
  /\ exData' = [op \in Ops |-> NoResult] /\ exLoading' = NoLoading
  /\ agentId' = "" /\ exInflight' = {} /\ exStarted' = 0 /\ exLast' = NoLast
  /\ UNCHANGED <<streamVars, cfgVars, apiVars, nbVars, srcVars, listVars>>

\* Home: setConfig with the configuration the sidebar applied; the mounted
\* view is rendered again with it, and ChatInterface's effect runs again
ConfigChange ==
  /\ \E c \in ViewConfigs \ {config} :
       /\ config' = c
       /\ localConfig' = c
       /\ IF currentView = "chat" THEN AgentsEffect(c)
          ELSE UNCHANGED agentsInflight
  /\ UNCHANGED <<errors, storage, mounted, streamVars, apiVars, nbVars, srcVars,
                 searchVars, exVars, homeVars, listVars, messages, input,
                 isLoading,
                 sessionId, chatInflight, chatResp, agents, selectedAgent>>

InitViews ==
  /\ ViewCfg /\ StreamIdle /\ ApiIdle /\ NbIdle /\ SrcIdle
  /\ ChatIdle /\ SearchStart /\ ExStart
  /\ ListIdle /\ currentView = "api-explorer"

NextViews ==
  \/ currentView = "chat" /\ NextChat /\ Len(messages') <= 2 * MaxViewTurns
  \/ currentView = "search" /\ NextSearch
  \/ currentView = "api-explorer" /\ NextEx
  \/ SwitchView
  \/ ConfigChange

SpecViews == InitViews /\ [][NextViews]_vars

\* NotebookList after its first render and the effect of its mount
InitList ==
  /\ config \in ListConfigs /\ localConfig = config
  /\ errors = <<>> /\ mounted = TRUE /\ storage = NoItem
  /\ StreamIdle /\ ApiIdle /\ NbIdle /\ ChatIdle /\ SearchIdle /\ SrcIdle /\ ExIdle
  /\ currentView = "notebooks"
  /\ notebooks = <<>>
  /\ listError = ""
  /\ listOutcomes = [i \in 1..MaxListRequests |-> NoListOutcome]
  /\ IF trim(config.projectNumber) = <<>>
       THEN listLoading = FALSE /\ listInflight = {} /\ listStarted = 0
       ELSE /\ listLoading = TRUE /\ listStarted = 1
            /\ listInflight = {[id |-> 1, project_number |-> config.projectNumber,
                                location |-> config.location]}

NextList == ListPropsChange \/ ListResponse \/ ListRemount

SpecList == InitList /\ [][NextList]_vars

(***************************************************************************)
(* Reference for the stream claims: the payloads of the complete lines of  *)
(* the whole decoded text, found by scanning for newline positions.        *)
(***************************************************************************)
WholeText(t) == DecodeFrom(<<>>, t, <<>>).out

LineEndingAt(chars, i) ==
  LET before == {j \in 1..(i - 1) : chars[j] = NL}
      start  == IF before = {} THEN 1
                ELSE 1 + CHOOSE j \in before : \A k \in before : k <= j
  IN  SubSeq(chars, start, i - 1)

RECURSIVE DataPayloadsFrom(_, _)
DataPayloadsFrom(chars, i) ==
  IF i > Len(chars) THEN <<>>
  ELSE IF chars[i] # NL THEN DataPayloadsFrom(chars, i + 1)
  ELSE LET line == LineEndingAt(chars, i)
           v    == IF Len(line) >= 6 /\ SubSeq(line, 1, 6) = SSEPrefix
                     THEN JSONparse(SubSeq(line, 7, Len(line)))
                     ELSE ParseError
       IN  (IF v = ParseError THEN <<>> ELSE <<v>>)
             \o DataPayloadsFrom(chars, i + 1)

UpToFirstTerminal(vs) ==
  LET T == {i \in 1..Len(vs) : IsTerminal(vs[i])}
  IN  IF T = {} THEN vs
      ELSE SubSeq(vs, 1, CHOOSE i \in T : \A j \in T : i <= j)

ExpectedYield(t) == UpToFirstTerminal(DataPayloadsFrom(WholeText(t), 1))

HasTerminal(vs) == \E i \in 1..Len(vs) : IsTerminal(vs[i])

\* C1: converseStream yields the parsed payload of every complete 'data: '
\* line in stream order, each once, up to and including the first payload of
\* type done or error, and yields nothing after it: what has been yielded is
\* always a prefix of that sequence, it is the whole sequence once the
\* generator has finished by itself, and the generator never reads again
\* after yielding a terminal payload.
C1_YieldsUntilTerminal ==
  /\ IsPrefixOf(yielded, ExpectedYield(text))
  /\ gend \in {"returned", "ended"} => yielded = ExpectedYield(text)
  /\ HasTerminal(yielded) => gpc \in {"suspended", "closed"} /\ gend # "ended"
  /\ gend = "returned" => HasTerminal(yielded)

\* a terminal payload was yielded after an earlier payload and the generator
\* returned although the stream still had bytes to deliver
C1_Witness ==
  /\ gend = "returned"
  /\ Len(yielded) >= 2
  /\ pos < Len(text)

\* the payloads a consumer receives when the whole text arrives as one chunk
RECURSIVE AllYields(_)
AllYields(ls) ==
  LET r == RunLoop(ls) IN
  IF ~r.yield THEN <<>>
  ELSE IF IsTerminal(r.value) THEN <<r.value>>
  ELSE <<r.value>> \o AllYields(r.rest)

OneChunkYield(t) == AllYields(Feed(<<>>, <<>>, t).lines)

\* C2: the yielded payloads do not depend on how the text is cut into read
\* chunks: whatever chunks were read, the payloads yielded are a prefix of,
\* and at the end equal to, those of the run that reads the text as one chunk.
C2_ChunkingInvariant ==
  /\ IsPrefixOf(yielded, OneChunkYield(text))
  /\ gend \in {"returned", "ended"} => yielded = OneChunkYield(text)

\* a read ended inside the 'data: ' marker of a later line, or inside a
\* two-byte character, after an earlier line had been yielded
C2_Witness ==
  /\ gpc = "read"
  /\ yielded # <<>>
  /\ \/ buffer # <<>> /\ Len(buffer) < Len(SSEPrefix) /\ IsPrefixOf(buffer, SSEPrefix)
     \/ pending # <<>>

ValidConfig(c) ==
  /\ trim(c.projectNumber) # <<>>
  /\ trim(c.engineId) # <<>>
  /\ c.location \in Locations

\* C3: saving a valid configuration through Apply and loading it with
\* loadConfigFromStorage gives back the configuration that was saved: every
\* Apply of a valid edited configuration leaves a stored text that loads to
\* that configuration, which is also the active one.
C3_SaveLoadRoundTrip ==
  [][(mounted /\ localConfig' = localConfig /\ ValidConfig(localConfig))
       => /\ loadConfigFromStorage(storage') = localConfig
          /\ config' = localConfig]_cfgVars

\* a valid configuration whose project number needs escaping is active and
\* is what the storage holds
C3_Witness ==
  /\ mounted
  /\ ValidConfig(config)
  /\ DQ \in Range(config.projectNumber)
  /\ BS \in Range(config.engineId)
  /\ storage = JSONstringify(config)
  /\ loadConfigFromStorage(storage) = config

\* C4: getBaseUrl maps 'global' to the bare host and us, eu to the host
\* prefixed with the location and a hyphen.
C4_BaseUrl ==
  call.fn = "getBaseUrl" =>
    outcome = Returned(
      CASE call.location = "global" -> "https://discoveryengine.googleapis.com"
        [] call.location = "us"     -> "https://us-discoveryengine.googleapis.com"
        [] call.location = "eu"     -> "https://eu-discoveryengine.googleapis.com")

\* getBaseUrl has been called with 'global'
C4_Witness ==
  /\ call.fn = "getBaseUrl"
  /\ call.location = "global"
  /\ outcome.kind = "returned"

\* the content type the claim describes: the declared type, else the table
\* entry of the lower-cased last segment, else application/octet-stream
C5_Expected(file) ==
  LET seg == Join(LastSegment([i \in 1..Len(file.name) |-> toLowerCase(file.name[i])]))
  IN  IF file.type # "" THEN file.type
      ELSE IF seg \in DOMAIN contentTypes THEN contentTypes[seg]
      ELSE "application/octet-stream"

\* C5: uploadFileSource sends, as the content_type parameter and as the
\* Content-Type header, the declared type of the file or else the table entry
\* of the lower-cased last dot-delimited segment of its name, and
\* application/octet-stream when the segment is not in the table.
C5_ContentType ==
  call.fn = "uploadFileSource" =>
    /\ request.content_type = C5_Expected(call.file)
    /\ request.header = C5_Expected(call.file)

C8_AsStated ==
  (nbResp.fn = "batchDeleteNotebooks" /\ ~nbResp.ok) =>
    /\ nbError # NoBanner
    /\ nbResp.body \in Range(nbError)

\* C8 amended: the failure is surfaced as one error whose message is the
\* fixed prefix followed by the status text of the response; the response
\* body is not part of it, the request is not repeated, the deleting flag is
\* cleared and no success message is produced by the failure.
C8_DeleteFailureSurfaced ==
  (nbResp.fn = "batchDeleteNotebooks" /\ ~nbResp.ok) =>
    /\ nbError = <<"Failed to delete notebooks: ", nbResp.statusText>>
    /\ nbResp.body \notin Range(nbError)
    /\ ~deleting
    /\ ~\E r \in nbInflight : r.fn = "batchDeleteNotebooks"
    /\ nbSuccess # <<"Notebook deleted successfully!">>

\* a delete has just failed with a body the banner does not show
C8_Witness ==
  /\ nbResp.fn = "batchDeleteNotebooks"
  /\ ~nbResp.ok
  /\ nbResp.body = "<html>Bad Gateway</html>"
  /\ nbError = <<"Failed to delete notebooks: ", "Internal Server Error">>

\* C9: handleCreateNotebook with an empty or whitespace-only title sets the
\* error and starts no request (neither createNotebook nor getNotebook), and
\* creating is false before and after.
C9_EmptyTitleRejected ==
  [][(HandleCreateNotebook /\ trim(newNotebookTitle) = <<>>)
       => /\ nbInflight' = nbInflight
          /\ nbLoads' = nbLoads
          /\ ~creating /\ ~creating'
          /\ nbError' = <<"Please enter a notebook title">>]_nbVars

\* a whitespace-only title has been rejected and nothing is in flight
C9_Witness ==
  /\ newNotebookTitle = <<" ">>
  /\ nbError = <<"Please enter a notebook title">>
  /\ nbInflight = {}
  /\ ~creating

\* the claim's reading of a chunk list
AnySkipped(chunks) == \E i \in 1..Len(chunks) : chunks[i].state = "SKIPPED"

AllReplyTexts(chunks) ==
  Join(Flatten([i \in 1..Len(chunks) |-> chunks[i].replies]))

ChunksOf(data) == IF data.hasChunks THEN data.chunks ELSE <<>>

AnsweredSuccessfully ==
  /\ chatResp \in Envelopes
  /\ chatResp.success
  /\ messages # <<>>

\* C6 as stated: after a successful response the assistant message is the
\* fixed fallback text when any chunk is SKIPPED, and otherwise the
\* concatenation of the reply texts in chunk and reply order.
C6_AsStated ==
  AnsweredSuccessfully =>
    messages[Len(messages)].content =
      IF AnySkipped(ChunksOf(chatResp)) THEN SkippedText
      ELSE AllReplyTexts(ChunksOf(chatResp))

\* C6 amended: as stated, except that when no chunk is SKIPPED and the
\* concatenation is empty the content is 'No response received'.
C6_SkippedOrConcatenation ==
  AnsweredSuccessfully =>
    /\ messages[Len(messages)].role = "assistant"
    /\ ~messages[Len(messages)].isStreaming
    /\ messages[Len(messages)].content =
         IF AnySkipped(ChunksOf(chatResp)) THEN SkippedText
         ELSE IF AllReplyTexts(ChunksOf(chatResp)) # ""
           THEN AllReplyTexts(ChunksOf(chatResp))
         ELSE "No response received"

\* a response whose second chunk is SKIPPED, after a chunk with reply text,
\* has been turned into the fallback text
C6_Witness ==
  /\ AnsweredSuccessfully
  /\ chatResp.hasChunks
  /\ Len(chatResp.chunks) = 2
  /\ chatResp.chunks[1].state # "SKIPPED"
  /\ chatResp.chunks[2].state = "SKIPPED"
  /\ messages[Len(messages)].content = SkippedText

\* C7: for the chunks of every response, the answer text SearchResults shows
\* is the answer text ChatInterface extracts from the same chunks.
C7_SameExtraction ==
  results # Null => getAnswerText(results) = ChatAnswerText(results)

\* the required fields of c that are empty or hold only blanks
MissingFields(c) ==
  {f \in {"projectNumber", "engineId"} : \A i \in 1..Len(c[f]) : c[f][i] = " "}

ErrorFor(f) ==
  IF f = "projectNumber" THEN "Project Number is required"
  ELSE "Engine ID is required"

\* C12: editing a field changes neither the active configuration nor the
\* stored value; Apply with an empty or blank projectNumber or engineId
\* leaves both unchanged and records one error per missing field; Apply
\* otherwise makes the edited configuration the active one, stores it and
\* clears the errors.
C12_MutatedOnlyOnApply ==
  [][/\ EditConfig => (config' = config /\ storage' = storage)
     /\ HandleApply =>
          IF MissingFields(localConfig) # {}
            THEN /\ config' = config
                 /\ storage' = storage
                 /\ Len(errors') = Cardinality(MissingFields(localConfig))
                 /\ Range(errors') = {ErrorFor(f) : f \in MissingFields(localConfig)}
            ELSE /\ config' = localConfig
                 /\ storage' = JSONstringify(localConfig)
                 /\ errors' = <<>>]_cfgVars

\* an Apply of a configuration whose fields are both blank has been refused
\* after an earlier configuration was applied and stored
C12_Witness ==
  /\ Len(errors) = 2
  /\ localConfig.projectNumber = <<" ">>
  /\ localConfig.engineId = <<>>
  /\ config # localConfig
  /\ ValidConfig(config)
  /\ storage = JSONstringify(config)

\* the stored value is a text that JSON.parse accepts
Parseable(item) ==
  /\ item # NoItem
  /\ \/ item = <<"n", "u", "l", "l">>
     \/ \E c \in [ConfigFields -> {<<>>, <<"1">>, <<"e">>, <<"eu">>, <<"us">>}] :
          item = JSONstringify(c)

\* C15 as stated: the active configuration starts as the default and on
\* mount becomes the stored value whenever the key holds parseable JSON;
\* otherwise the default stays.
C15_AsStated ==
  [][Mount => IF Parseable(storage)
                THEN config' = JSONparseObject(storage)
                ELSE config' = getDefaultConfig]_cfgVars

\* C15 amended: the active configuration is the default until the mount; the
\* mount makes it the stored value when the key holds parseable JSON whose
\* value is not null, and leaves the default when the key is absent, empty,
\* unparseable or holds null; afterwards the active configuration changes
\* only to an applied edit, never to what the storage holds.
C15_LoadedOnceAtMount ==
  /\ [][Mount => /\ loadConfigFromStorage(storage) # ParseError
                 /\ ~Parseable(storage) => loadConfigFromStorage(storage) = Null
                 /\ IF Parseable(storage) /\ storage # <<"n", "u", "l", "l">>
                      THEN config' = JSONparseObject(storage)
                      ELSE config' = getDefaultConfig]_cfgVars
  /\ [][~mounted => config = getDefaultConfig]_cfgVars
  /\ [][(mounted /\ config' # config) => config' = localConfig]_cfgVars

\* the page was opened with a stored configuration, which is now active
C15_Witness ==
  /\ mounted
  /\ config # getDefaultConfig
  /\ storage = JSONstringify(config)
  /\ errors = <<>>
  /\ localConfig = config
  /\ config.assistantId = <<>>

\* the complete lines of the decoded text: those ended by a newline
RECURSIVE CompleteLinesFrom(_, _)
CompleteLinesFrom(chars, i) ==
  IF i > Len(chars) THEN <<>>
  ELSE IF chars[i] # NL THEN CompleteLinesFrom(chars, i + 1)
  ELSE <<LineEndingAt(chars, i)>> \o CompleteLinesFrom(chars, i + 1)

IsDataLine(line) == Len(line) >= 6 /\ SubSeq(line, 1, 6) = SSEPrefix

PayloadOf(line) == JSONparse(SubSeq(line, 7, Len(line)))

Yieldable(line) == IsDataLine(line) /\ PayloadOf(line) # ParseError

\* the indexes of the complete lines that are to be yielded: the data lines
\* with a valid payload, up to the first one of type done or error
Reached(ls) ==
  LET good == {i \in 1..Len(ls) : Yieldable(ls[i])}
      term == {i \in good : IsTerminal(PayloadOf(ls[i]))}
  IN  {i \in good : \A j \in term : i <= j}

\* C18: a complete line without the 'data: ' marker and a 'data: ' line whose
\* payload is not valid JSON yield nothing and do not end the generator: the
\* k-th value yielded is the payload of the k-th valid data line, wherever the
\* other lines stand between them, and a run that finishes by itself has
\* yielded all of them.
C18_BadLinesSkipped ==
  LET ls == CompleteLinesFrom(WholeText(text), 1) IN
  /\ ParseError \notin Range(yielded)
  /\ \A k \in 1..Len(yielded) :
       \E i \in Reached(ls) :
         /\ Cardinality({j \in Reached(ls) : j < i}) = k - 1
         /\ yielded[k] = PayloadOf(ls[i])
  /\ gend \in {"ended", "returned"} => Len(yielded) = Cardinality(Reached(ls))
  /\ (gend = "threw" /\ pos > 0) => gerr = <<"network error">>

\* the stream began with a data line whose payload does not parse, and the
\* valid payload of the line after it was yielded before the stream ended
C18_Witness ==
  LET ls == CompleteLinesFrom(WholeText(text), 1) IN
  /\ gend = "ended"
  /\ Len(ls) = 2
  /\ IsDataLine(ls[1]) /\ ~Yieldable(ls[1])
  /\ yielded = <<PayloadOf(ls[2])>>

\* the decoded text after the last newline
Leftover(chars) ==
  LET nl == {i \in 1..Len(chars) : chars[i] = NL}
  IN  IF nl = {} THEN chars
      ELSE SubSeq(chars, 1 + CHOOSE i \in nl : \A j \in nl : j <= i, Len(chars))

\* C19: when the stream ends, the text left in the buffer without a newline
\* has been neither parsed nor yielded, even if it is a well-formed payload:
\* the values yielded are those of the complete lines only, the text is still
\* in the buffer, and the generator completes without an error; the end of
\* the stream can always be taken once every byte was read.
C19_OnlyCompleteLines ==
  /\ gend = "ended" =>
       /\ buffer = Leftover(WholeText(text))
       /\ Len(yielded) =
            Cardinality(Reached(CompleteLinesFrom(WholeText(text), 1)))
       /\ gerr = <<>>
       /\ gpc = "closed"
  /\ (gpc = "read" /\ pos = Len(text)) => ENABLED ReadDone

\* the stream ended with a well-formed done event that had no newline after
\* it: it is still in the buffer and was not yielded
C19_Witness ==
  /\ gend = "ended"
  /\ buffer = SSEPrefix \o <<"{", "D", "}">>
  /\ Len(yielded) >= 1
  /\ ~HasTerminal(yielded)

\* the reader was acquired: the generator got past fetch, the status check
\* and getReader()
ReaderAcquired ==
  /\ gpc # "fetch"
  /\ ~(gpc = "closed" /\ gend = "threw" /\ gerr # <<"network error">>)

\* C20: once the reader was acquired its lock is released exactly once on
\* every exit path (after a done or error payload, at the end of the stream,
\* when read() throws, when the consumer abandons the iteration), and it is
\* not released before the exit nor when no reader was acquired.
C20_ReleasedExactlyOnce ==
  /\ releases \in {0, 1}
  /\ (gpc = "closed" /\ ReaderAcquired) =>
       /\ releases = 1
       /\ gend \in {"returned", "ended", "threw", "abandoned"}
  /\ (gpc # "closed" \/ ~ReaderAcquired) => releases = 0

\* the consumer abandoned the iteration after the first value and the lock
\* was released
C20_Witness ==
  /\ gend = "abandoned"
  /\ releases = 1
  /\ Len(yielded) = 1
  /\ pos < Len(text)

Blank(s) == \A i \in 1..Len(s) : s[i] = " "

\* a required field of the selected source type is missing
RequiredMissing ==
  CASE sourceType = "text" -> Blank(form.textSourceName) \/ Blank(form.textContent)
    [] sourceType = "web" -> Blank(form.webUrl) \/ Blank(form.webSourceName)
    [] sourceType = "video" -> Blank(form.videoUrl)
    [] sourceType = "google_drive" ->
         Blank(form.driveDocId) \/ Blank(form.driveSourceName)
    [] sourceType = "file" -> selectedFile = Null \/ Blank(form.fileDisplayName)

\* C13: handleAddSource with a required field of the selected source type
\* missing sets an error at once, sends no request and leaves the adding
\* flag false.
C13_MissingFieldRejected ==
  [][(HandleAddSource /\ RequiredMissing) =>
       /\ srcError' # NoBanner
       /\ srcInflight' = srcInflight
       /\ adding' = FALSE]_vars

\* a file was picked, its display name was blanked and Add Source was refused
C13_Witness ==
  /\ sourceType = "file"
  /\ selectedFile # Null
  /\ form.fileDisplayName = <<" ">>
  /\ srcError = <<"Please provide a display name for the file">>
  /\ srcInflight = {}
  /\ ~adding

VariantFields ==
  {"text_content", "web_content", "video_content", "google_drive_content"}

VariantOf(t) ==
  CASE t = "text" -> "text_content"
    [] t = "web" -> "web_content"
    [] t = "video" -> "video_content"
    [] t = "google_drive" -> "google_drive_content"

\* C16: every batch-create request NotebookSourceManager sends carries
\* exactly one UserContent, and that UserContent has exactly one of the four
\* variant fields: the one of the source type selected when it is sent.
C16_OneVariant ==
  [][\A r \in srcInflight' \ srcInflight :
       r.fn = "batchCreateNotebookSources" =>
         /\ Len(r.user_contents) = 1
         /\ Cardinality(DOMAIN r.user_contents[1] \cap VariantFields) = 1
         /\ DOMAIN r.user_contents[1] = {VariantOf(sourceType)}]_vars

\* a Google Drive source is being added
C16_Witness ==
  \E r \in srcInflight :
    /\ r.fn = "batchCreateNotebookSources"
    /\ DOMAIN r.user_contents[1] = {"google_drive_content"}
    /\ adding

\* an operation's request has just failed at transport level
TransportFailure == exLast'.op # "none" /\ exLast'.outcome.threw

\* C17: when the request of an ApiExplorer operation fails at transport level
\* (fetch or the JSON parsing throws), the result of that operation becomes
\* an envelope with the exception's message as error.message and without a
\* response, the results of the other six operations stay as they were, and
\* loading is cleared.
C17_TransportFailureScoped ==
  [][TransportFailure =>
       /\ exData'[exLast'.op].isSet
       /\ exData'[exLast'.op].message = exLast'.outcome.result.message
       /\ ~exData'[exLast'.op].hasResponse
       /\ \A op \in Ops \ {exLast'.op} : exData'[op] = exData[op]
       /\ exLoading' = NoLoading]_vars

\* the stream-assist test failed at transport level after engine details had
\* been fetched successfully; the engine details are still shown
C17_Witness ==
  /\ exLast.op = "streamassist"
  /\ exLast.outcome.threw
  /\ exData["streamassist"].message = "Failed to fetch"
  /\ exData["enginedetails"].hasResponse
  /\ exLoading = NoLoading

\* the requests a step issues from the three views
IssuedBy(before, after) == after \ before

\* C14: ApiExplorer, ChatInterface and SearchResults issue a request only
\* under a configuration whose projectNumber and engineId are both
\* non-empty: every request a step adds carries the project number and the
\* engine id of the configuration active after the step, and neither is
\* empty, whatever the user did and however the configuration changed before.
C14_ConfiguredBeforeRequests ==
  [][/\ \A r \in IssuedBy(chatInflight, chatInflight')
             \cup IssuedBy(agentsInflight, agentsInflight') :
          /\ r.project_number = config'.projectNumber
          /\ r.engine_id = config'.engineId
          /\ r.project_number # <<>> /\ r.engine_id # <<>>
     /\ \A r \in IssuedBy(searchInflight, searchInflight') :
          /\ r.project_number = config'.projectNumber
          /\ r.engine_id = config'.engineId
          /\ r.project_number # <<>> /\ r.engine_id # <<>>
     /\ \A r \in IssuedBy(exInflight, exInflight') :
          /\ r.project_number = config'.projectNumber
          /\ r.engine_id = config'.engineId
          /\ r.project_number # <<>> /\ r.engine_id # <<>>]_vars

\* in the chat view a query and the agent list request are in flight, and
\* the agent list of an earlier request has arrived
C14_Witness ==
  /\ currentView = "chat"
  /\ chatInflight # {}
  /\ agentsInflight # {}
  /\ agents # <<>>

\* C11: every request the views issue carries project_number and location,
\* with the values of the active configuration.
C11_CarriesProjectAndLocation ==
  /\ \A r \in chatInflight \cup agentsInflight :
       /\ {"project_number", "location"} \subseteq DOMAIN r
       /\ r.project_number = config.projectNumber /\ r.location = config.location
  /\ \A r \in exInflight :
       /\ {"project_number", "location"} \subseteq DOMAIN r
       /\ r.project_number = config.projectNumber /\ r.location = config.location
  /\ \A r \in srcInflight :
       /\ {"project_number", "location"} \subseteq DOMAIN r
       /\ r.project_number = config.projectNumber /\ r.location = config.location
  /\ \A r \in searchInflight :
       /\ {"project_number", "location"} \subseteq DOMAIN r
       /\ r.project_number = config.projectNumber /\ r.location = config.location

\* a response that answers a request: the request leaves chatInflight
ChatAnswered ==
  chatInflight' # chatInflight /\ chatInflight' \subseteq chatInflight

SessionCarried(data) ==
  data \in Envelopes /\ data.success /\ data.session # ""

\* C21: the chat starts with session id '-'; every query is sent with the
\* current session id, and apart from Clear Chat the session id changes only
\* to the id carried by a successful response: a response with success false
\* or without session_info, and an exception, leave it unchanged.
C21_SessionContinuity ==
  /\ sessionId = "-"
  /\ [][HandleClearChat \/
        /\ \A r \in chatInflight' \ chatInflight : r.session_id = sessionId
        /\ sessionId' = IF ChatAnswered /\ SessionCarried(chatResp')
                          THEN chatResp'.session ELSE sessionId]_vars

\* the second query is in flight with the session id the first answer carried
C21_Witness ==
  /\ Len(messages) = 4
  /\ \E r \in chatInflight : r.session_id = "s1"

\* C22 as stated: a query sent while the message list is empty (the first one,
\* and the first one after Clear Chat) carries session_id '-', and after a
\* response the message list is empty only if nothing was submitted before it.
C22_ClearStartsFresh ==
  [][/\ messages = <<>> => \A r \in chatInflight' \ chatInflight : r.session_id = "-"
     /\ (ChatAnswered /\ messages = <<>>) => messages' = <<>>]_vars

Alternates(ms) ==
  \A i \in 1..Len(ms) : ms[i].role = IF i % 2 = 1 THEN "user" ELSE "assistant"

\* C23: the messages alternate user, assistant from a user message; only the
\* last message can be streaming, and only while isLoading; at most one
\* stream-assist request is in flight; a request is in flight only while
\* isLoading, so isLoading is false once its outcome arrived.
C23_AlternationAndLoading ==
  /\ Alternates(messages)
  /\ \A i \in 1..Len(messages) :
       messages[i].isStreaming => (i = Len(messages) /\ isLoading)
  /\ Cardinality(chatInflight) <= 1
  /\ isLoading <=> chatInflight # {}

\* Clear Chat was clicked while the first request was in flight, its answer
\* carried a session id, and the second request ended with an exception
C23_Witness ==
  /\ chatResp = Rejected
  /\ Len(messages) = 2
  /\ sessionId # "-"
  /\ ~isLoading

\* C24 as stated: while the request of an operation is in flight, the shared
\* loading state holds that operation's key.
C24_LoadingHoldsKey ==
  \A r \in exInflight : exLoading = r.op

\* the call NotebookList started last was made for the props it has now
LatestCallIsCurrent ==
  /\ listStarted >= 2
  /\ listInflight = {}
  /\ trim(config.projectNumber) # <<>>
  /\ listOutcomes[listStarted].kind = "returned"

\* C25 as stated: once the calls have completed, the list shows the notebooks
\* returned for the latest props and loading is false, whatever the order of
\* the responses.
C25_ShowsLatest ==
  [][(listInflight # {} /\ LatestCallIsCurrent')
       => (notebooks' = listOutcomes'[listStarted].value /\ ~listLoading')]_vars

\* C26 as stated: when handleCreateNotebook ends after createNotebook
\* succeeded, the parent has been told to refresh the list, whatever
\* getNotebook answered and whether or not the response carried an id.
C26_RefreshAfterCreate ==
  [][(creating /\ ~creating' /\ nbSuccess' # NoBanner
        /\ nbSuccess'[1] = "Notebook created successfully! ID: ")
       => refreshKey' = refreshKey + 1]_vars

\* the step is the continuation of handleDeleteNotebook after its await
DeleteAnswered ==
  /\ \E r \in nbInflight : r.fn = "batchDeleteNotebooks" /\ r \notin nbInflight'
  /\ nbResp'.fn = "batchDeleteNotebooks"

\* C27: a delete that succeeds clears notebookDetails and the parent's
\* selection and triggers the list refresh; a delete that fails, a declined
\* confirmation and an empty project number leave notebookDetails, the
\* selection and the refresh key as they were; deleting is false afterwards.
C27_DeleteOutcome ==
  [][/\ (DeleteAnswered /\ nbResp'.ok)
          => /\ notebookDetails' = Null /\ selectedNotebook' = Null
             /\ refreshKey' = refreshKey + 1
             /\ ~deleting'
     /\ (DeleteAnswered /\ ~nbResp'.ok)
          => /\ UNCHANGED <<notebookDetails, selectedNotebook, refreshKey>>
             /\ ~deleting'
     /\ (HandleDeleteNotebook /\ nbInflight' = nbInflight)
          => /\ UNCHANGED <<notebookDetails, selectedNotebook, refreshKey>>
             /\ ~deleting']_vars

\* a selected notebook has just been deleted: nothing is selected and the
\* list has been refreshed
C27_Witness ==
  /\ nbResp.fn = "batchDeleteNotebooks" /\ nbResp.ok
  /\ notebookDetails = Null /\ selectedNotebook = Null
  /\ refreshKey = 1
  /\ nbSuccess = <<"Notebook deleted successfully!">>

\* C29 as stated: the error banner and the success banner are never both set.
C29_BannersExclusive ==
  ~(nbError # NoBanner /\ nbSuccess # NoBanner)

\* C28 as stated: when the display name is the one handleFileChange filled in
\* (the file name without its last extension), the file_name uploadFileSource
\* sends is the original name of the selected file.
C28_KeptNameRoundTrip ==
  [][\A r \in srcInflight' \ srcInflight :
       (r.fn = "uploadFileSource"
          /\ form.fileDisplayName = nameWithoutExt(selectedFile.name))
         => r.upload.file_name = selectedFile.name]_vars

\* C30 as stated: no call of batchCreateNotebookSources, uploadFileSource or
\* batchDeleteNotebookSources is made with an empty project number.
C30_NoCallWithoutProject ==
  \A r \in srcInflight : r.project_number # <<>>

====
